---- MODULE Spec2Model ----
(***************************************************************************)
(* A model of rnsh (src/rnsh/rnsh.py): the listener's session registry,    *)
(* the per-link ProcessState with its stdout buffer, the "data" request    *)
(* handler, the data-available notification chain, and the client loop.    *)
(*                                                                         *)
(* The modules process.py (CallbackSubprocess, TtyRestorer) and retry.py   *)
(* (RetryThread) are not part of src/; what the model needs of them is     *)
(* taken from spec.md sections 4.2 and 4.4.  RNS (links, packets,          *)
(* requests) is the external transport of spec.md section 6.               *)
(***************************************************************************)
EXTENDS Integers, Sequences, FiniteSets, TLC

\* ------------------------------------------------------------------ bounds

\* bytes one child writes to its PTY over its lifetime
MaxOut == 3
\* bytes written to one child's stdin over its lifetime
MaxIn == 2
\* callbacks waiting on the event loop at one time
MaxQueue == 2
\* requests one client sends
MaxRequests == 3
\* SIGINTs one client receives
MaxSigint == 2
\* entries the registry holds when put_for_tag is called on it directly
MaxRegistry == 3

Links == {1}
RetCodes == {0, 7}
MDUs == {1, 2}

\* ProcessState.REQUEST_IDX_TIOS .. REQUEST_IDX_VPIX: positions in a request
REQUEST_IDX_TIOS == 2
REQUEST_IDX_VPIX == 6
\* ProcessState.TERMSTATE_IDX_ROWS .. TERMSTATE_IDX_VPIX
TERMSTATE_IDX_ROWS == 2
TERMSTATE_IDX_COLS == 3
TERMSTATE_IDX_HPIX == 4
TERMSTATE_IDX_VPIX == 5

\* Python's s[a:b] for 0 <= a <= b; positions of a Python list are counted
\* from 0, those of a sequence from 1
PySlice(s, a, b) == SubSeq(s, a + 1, IF b < Len(s) THEN b ELSE Len(s))

\* the terminal of a client: termios attributes and window size
Vt24x80 == [tios |-> 1, rows |-> 24, cols |-> 80, hpix |-> 640, vpix |-> 384]
Vt40x120 == [tios |-> 1, rows |-> 40, cols |-> 120, hpix |-> 960, vpix |-> 640]
Terminals == {Vt24x80, Vt40x120}

\* default_request: the list a client builds for terminal t; the stdin field
\* and TERM, positions 0 and 1, are kept apart from it in the model
RequestList(t) == <<0, 0, t.tios, t.rows, t.cols, t.hpix, t.vpix>>

\* process_request: term_state = data[REQUEST_IDX_TIOS:REQUEST_IDX_VPIX+1]
TermState(t) == PySlice(RequestList(t), REQUEST_IDX_TIOS, REQUEST_IDX_VPIX + 1)
TermStates == {TermState(t) : t \in Terminals}
Identities == {"H1", "H2"}
AllowLists == {{"H1"}}

\* ------------------------------------------------- python values and base64

\* Python's None in a position that holds a string or bytes otherwise
NoneSeq == <<-1>>
\* Python's None in a position that holds a return code otherwise
NoneRc == -1
NoIdentity == "none"
\* Python's None where a term_state list stands otherwise
NoTermState == <<>>

Min(a, b) == IF a < b THEN a ELSE b

\* the n-th byte the child writes to its PTY: 253, 80, 163, 246, ...
OutByte(n) == (n * 83 + 170) % 256

\* the n-th byte the client reads from its terminal: 65, 124, 183, 242, ...
InByte(n) == (n * 59 + 6) % 256

\* the j bytes of the client's stdin that follow the first n
InBytes(n, j) == [i \in 1..j |-> InByte(n + i)]

IsPrefix(p, s) == Len(p) <= Len(s) /\ SubSeq(s, 1, Len(p)) = p

\* the 65th symbol of the base64 alphabet, "="
B64Pad == 64

\* base64.b64encode: three bytes become four sextets, the tail is padded
RECURSIVE B64Encode(_)
B64Encode(s) ==
    IF Len(s) = 0 THEN <<>>
    ELSE IF Len(s) = 1 THEN
        <<s[1] \div 4, (s[1] % 4) * 16, B64Pad, B64Pad>>
    ELSE IF Len(s) = 2 THEN
        <<s[1] \div 4, (s[1] % 4) * 16 + (s[2] \div 16), (s[2] % 16) * 4, B64Pad>>
    ELSE
        <<s[1] \div 4, (s[1] % 4) * 16 + (s[2] \div 16),
          (s[2] % 16) * 4 + (s[3] \div 64), s[3] % 64>>
        \o B64Encode(SubSeq(s, 4, Len(s)))

\* base64.b64decode raises binascii.Error on input it cannot decode
B64Valid(t) ==
    /\ Len(t) % 4 = 0
    /\ \A i \in 1..Len(t) :
          /\ t[i] \in 0..B64Pad
          /\ t[i] = B64Pad => (i > Len(t) - 2 /\ t[Len(t)] = B64Pad)

\* base64.b64decode of valid input
RECURSIVE B64Decode(_)
B64Decode(t) ==
    IF Len(t) = 0 THEN <<>>
    ELSE LET b1 == t[1] * 4 + (t[2] \div 16)
             b2 == (t[2] % 16) * 16 + (t[3] \div 4)
             b3 == (t[3] % 4) * 64 + t[4]
         IN  IF t[3] = B64Pad THEN <<b1>>
             ELSE IF t[4] = B64Pad THEN <<b1, b2>>
             ELSE <<b1, b2, b3>> \o B64Decode(SubSeq(t, 5, Len(t)))

\* ------------------------------------------------------------------- state

VARIABLES
    allow_all,                \* _allow_all
    allowed_identity_hashes,  \* _allowed_identity_hashes
    link_status,              \* link.status of each link of _destination.links
    remote_identity,          \* the identity the link's initiator has proved
    link_mdu,                 \* link.MDU
    processes,                \* ProcessState._processes, a list of (tag, ps)
    child,                    \* ps.process, the CallbackSubprocess of a link
    data_buffer,              \* ps._data_buffer
    lock,                     \* ps._lock: the thread that holds it
    term_state,               \* ps._term_state
    pending_receipt,          \* ps._pending_receipt, by the receipt's status
    rq,                       \* the transport thread inside _listen_request
    pump,                     \* the PTY reader of a link inside _stdout_data
    loop_queue,               \* callbacks handed to the event loop, in order
    loop_pc,                  \* the event loop inside _subproc_data_ready
    statuses,                 \* _retry_timer: the retry chain of each tag
    timers,                   \* links whose call_later(300, inner) is pending
    response,                 \* the last response returned for each link
    written,                  \* every byte the child has written, in order
    delivered,                \* the decoded stdout of all responses, in order
    sent_stdin,               \* the stdin the requests asked to be written
    chain_sent,               \* packets sent by the attempts of the live chain
    client,                   \* the client process (_initiate, _execute, main)
    serve,                    \* the listener's main coroutine (_listen)
    registry_op,              \* the last operation applied to the registry
    not_active,               \* links an attempt of inner has found not ACTIVE
    registry_lock,            \* ProcessState._lock: the thread that holds it
    retry_lock,               \* the retry timer's lock: the thread that holds it
    threads                   \* each thread's lock operations still to do, and
                              \* how often it holds each lock

lockVars == <<registry_lock, retry_lock, threads>>

mainVars == <<serve, registry_op, not_active, lockVars>>

listenerVars ==
    <<allow_all, allowed_identity_hashes, link_status, remote_identity, link_mdu,
      processes, child, data_buffer, lock, term_state, pending_receipt, rq, pump,
      loop_queue, loop_pc, statuses, timers, response, written, delivered,
      sent_stdin, chain_sent, mainVars>>

vars == <<listenerVars, client>>

\* ------------------------------------------------------------- the registry

NoPs == 0

\* ProcessState.get_for_tag: the first entry whose tag is `tag`, or None
GetForTag(reg, tag) ==
    IF \E i \in 1..Len(reg) : reg[i][1] = tag
    THEN reg[CHOOSE i \in 1..Len(reg) :
                /\ reg[i][1] = tag
                /\ \A j \in 1..(i - 1) : reg[j][1] # tag][2]
    ELSE NoPs

\* whether the list entry (tag, ps) equals the bare tag handed to list.remove:
\* a tuple never equals the tag it holds
EntryEqualsTag(entry, tag) == FALSE

\* ProcessState.clear_tag: list.remove(tag) drops the first equal entry and
\* raises ValueError when there is none, which clear_tag swallows
ClearTag(reg, tag) ==
    IF \E i \in 1..Len(reg) : EntryEqualsTag(reg[i], tag)
    THEN LET i == CHOOSE k \in 1..Len(reg) :
                     /\ EntryEqualsTag(reg[k], tag)
                     /\ \A j \in 1..(k - 1) : ~EntryEqualsTag(reg[j], tag)
         IN  SubSeq(reg, 1, i - 1) \o SubSeq(reg, i + 1, Len(reg))
    ELSE reg

\* ProcessState.put_for_tag
PutForTag(reg, tag, ps) == Append(ClearTag(reg, tag), <<tag, ps>>)

\* ------------------------------------------------------- values of the state

\* the retry chains of the timer thread: none
NoChains == <<>>

NoChild == [state |-> "none", rc |-> NoneRc, pty |-> <<>>, stdin |-> <<>>,
            winsz |-> NoTermState, spawned |-> 0]

IdleRq == [pc |-> "idle", link |-> 0, field |-> NoneSeq, raw |-> <<>>,
           ts |-> NoTermState, running |-> FALSE, rc |-> NoneRc,
           take |-> <<>>, before |-> <<>>, set_winsize |-> FALSE]

NoResponse == [some |-> FALSE, by |-> "none", running |-> FALSE, rc |-> NoneRc,
               rdy |-> 0, stdout |-> NoneSeq, before |-> <<>>]

\* ProcessState.default_response (the timestamp is left out)
DefaultResponse == [some |-> TRUE, by |-> "default", running |-> FALSE,
                    rc |-> NoneRc, rdy |-> 0, stdout |-> NoneSeq, before |-> <<>>]

\* _listen_request has raised: nothing is returned to the transport
Raised == [NoResponse EXCEPT !.by = "raised"]

\* _listen in its serving loop: _finished is an Event that is not set, `last`
\* holds time.time(); tick tells one pass of the loop from the next; b is
\* disable_announce
Serving(b) == [pc |-> "serving", finished |-> FALSE, tick |-> 0,
               disable_announce |-> b, last |-> "time"]

\* no operation has been applied to the registry
NoOp == [op |-> "none", tag |-> 0, ps |-> 0, before |-> <<>>]

\* the client before main has parsed its arguments
NoClient == [pc |-> "off", mirror |-> FALSE, noid |-> FALSE, did_identify |-> FALSE,
             destination |-> [len |-> 0, hex |-> TRUE], path |-> FALSE,
             printed |-> <<>>, link |-> "none", requests |-> 0, out |-> <<>>, last |-> NoResponse,
             return_code |-> NoneRc, error |-> FALSE, exit |-> NoneRc,
             tty |-> "original", restores |-> 0,
             finished |-> FALSE, first_loop |-> TRUE, data_buffer |-> <<>>,
             stdin |-> <<>>, typed |-> 0, sigints |-> 0, inband |-> 0,
             carried |-> <<>>]

\* TtyRestorer.raw: the terminal is put into raw mode
TtyRaw(c) == [c EXCEPT !.tty = "raw"]

\* TtyRestorer.restore: the attributes saved at construction are set again
TtyRestore(c) == [c EXCEPT !.tty = "original", !.restores = @ + 1]

\* CallbackSubprocess.running: started and not yet reaped
Running(ch) == ch.state \in {"running", "terminating"}

\* CallbackSubprocess.terminate: signals the child; a no-op once it has exited
Terminate(ch) == IF ch.state = "running" THEN [ch EXCEPT !.state = "terminating"] ELSE ch

\* `with self.lock`: an RLock is granted when free or held by the same thread
CanAcquireFree(owner, thread) == TRUE
CanAcquire(owner, thread) == owner \in {"free", thread}

\* RetryThread.has_tag: a chain exists for `tag`
HasTag(st, tag) == \E i \in DOMAIN st : st[i].tag = tag

\* RetryThread.complete: the chain of `tag` is dropped
Complete(st, tag) == SelectSeq(st, LAMBDA s : s.tag # tag)

\* a chain is timed out once it has made try_limit tries
TimedOut(tries, limit) == tries >= limit

\* _subproc_data_ready: `if not _retry_timer.has_tag(link.link_id)`
NotPendingAlways(st, tag) == TRUE
NotPending(st, tag) == ~HasTag(st, tag)

\* a callback handed to the event loop: cleanup of _subproc_terminated, a
\* call of _subproc_data_ready, or inner of send(timeout, tag, tries) for link
\* l; stale and old note what has become of the chain the attempt belongs to
Item(k, l, timeout) ==
    [k |-> k, l |-> l, timeout |-> timeout, stale |-> FALSE, old |-> FALSE]

\* a new chain begins for link l: the attempts of l still waiting on the event
\* loop belong to an earlier chain
MarkOld(q, l) ==
    [i \in DOMAIN q |->
        IF q[i].k = "inner" /\ q[i].l = l THEN [q[i] EXCEPT !.old = TRUE] ELSE q[i]]

\* the chain of link l is cancelled: the attempts of l still waiting on the
\* event loop belong to a chain that has been cancelled
MarkStale(q, l) ==
    [i \in DOMAIN q |->
        IF q[i].k = "inner" /\ q[i].l = l THEN [q[i] EXCEPT !.stale = TRUE] ELSE q[i]]

\* the transport serves a request of the "data" handler only to an initiator
\* the handler's allow-list admits (ALLOW_ALL admits everyone)
RequestAllowed(l) == allow_all \/ remote_identity[l] \in allowed_identity_hashes

\* _initiator_identified: `not _allow_all and not identity.hash in
\* _allowed_identity_hashes`
IdentityRefusedNever(all, allowed, h) == FALSE
IdentityRefused(all, allowed, h) == ~all /\ h \notin allowed

\* leave significant headroom for metadata and encoding
ReadSize(mdu) == (mdu * 3) \div 2

\* ProcessState.read: what is taken, and what stays in the buffer
ReadTake(buf, count) == SubSeq(buf, 1, Min(count, Len(buf)))
ReadRestOffByOne(buf, count) == SubSeq(buf, count + 2, Len(buf))
ReadRest(buf, count) == SubSeq(buf, count + 1, Len(buf))

\* process_request: the bytes written to the child for a request's stdin field
StdinToWriteUndecoded(field) ==
    IF field # NoneSeq /\ Len(field) > 0 THEN field ELSE <<>>
StdinToWrite(field) ==
    IF field # NoneSeq /\ Len(field) > 0 THEN B64Decode(field) ELSE <<>>

\* process_request: the stdout field of the response
StdoutField(take) == IF Len(take) > 0 THEN B64Encode(take) ELSE NoneSeq

\* what the client makes of a response's stdout field (_execute)
StdoutOfResponse(field) == IF field # NoneSeq THEN B64Decode(field) ELSE <<>>

\* a base64 string without its padding, as a foreign client may send it
Malformed == <<16, 16>>

\* the requests the handler may be given once n bytes of stdin have been sent:
\* data is a list whose stdin field is the base64 of the next j bytes (as
\* _execute builds it), None, or malformed; or data is no list at all
Requests(n) ==
    {[shape |-> "list", field |-> B64Encode(InBytes(n, j)), raw |-> InBytes(n, j),
      ts |-> t] : j \in 0..(MaxIn - n), t \in TermStates}
    \cup {[shape |-> "list", field |-> f, raw |-> <<>>, ts |-> t] :
        f \in {NoneSeq, Malformed}, t \in TermStates}
    \cup {[shape |-> "none", field |-> NoneSeq, raw |-> <<>>, ts |-> NoTermState]}

\* the threads of the listener that take locks: the PTY reader, the thread
\* that runs _listen_request, the thread that runs _listen_link_closed, the
\* event loop and the retry timer's thread
Threads == {"pump", "rq", "closed", "loop", "retry"}

\* the locks: ProcessState._lock, a ProcessState's _lock and the retry timer's
LockNames == {"registry", "session", "retry"}

\* a thread that runs no handler and holds no lock
NoThread == [ops |-> <<>>, link |-> 0, held |-> [x \in LockNames |-> 0]]

\* --------------------------------------------------------------------- Init

ListenerInit ==
    /\ \/ allow_all = TRUE /\ allowed_identity_hashes = {}
       \/ allow_all = FALSE /\ allowed_identity_hashes \in AllowLists
    /\ link_status = [l \in Links |-> "PENDING"]
    /\ remote_identity = [l \in Links |-> NoIdentity]
    /\ link_mdu \in [Links -> MDUs]
    /\ processes = <<>>
    /\ child = [l \in Links |-> NoChild]
    /\ data_buffer = [l \in Links |-> <<>>]
    /\ lock = [l \in Links |-> "free"]
    /\ term_state = [l \in Links |-> NoTermState]
    /\ pending_receipt = [l \in Links |-> "None"]
    /\ rq = IdleRq
    /\ pump = [l \in Links |-> "idle"]
    /\ loop_queue = <<>>
    /\ loop_pc = [pc |-> "idle", l |-> 0]
    /\ statuses = NoChains
    /\ timers = {}
    /\ response = [l \in Links |-> NoResponse]
    /\ written = [l \in Links |-> <<>>]
    /\ delivered = [l \in Links |-> <<>>]
    /\ sent_stdin = [l \in Links |-> <<>>]
    /\ chain_sent = [l \in Links |-> 0]
    /\ serve \in {Serving(b) : b \in BOOLEAN}
    /\ registry_op = NoOp
    /\ not_active = {}
    /\ registry_lock = "free"
    /\ retry_lock = "free"
    /\ threads = [t \in Threads |-> NoThread]

\* ------------------------------------------------------------ the transport

\* link.teardown(), or the link closing by itself: the status becomes CLOSED
\* and the link-closed callback, _listen_link_closed, runs.  st and q are the
\* retry chains and the loop's queue as the caller has left them.
Teardown(l, st, q) ==
    LET proc == GetForTag(processes, l) IN
    /\ link_status' = [link_status EXCEPT ![l] = "CLOSED"]
    /\ child' = IF proc # NoPs THEN [child EXCEPT ![proc] = Terminate(@)] ELSE child
    /\ statuses' = IF proc # NoPs THEN Complete(st, l) ELSE st
    /\ loop_queue' = IF proc # NoPs THEN MarkStale(q, l) ELSE q
    /\ processes' = ClearTag(processes, l)

\* _listen_link_established: the callbacks are set on a link that became ACTIVE
ListenLinkEstablished(l) ==
    /\ link_status[l] = "PENDING"
    /\ link_status' = [link_status EXCEPT ![l] = "ACTIVE"]
    /\ UNCHANGED <<allow_all, allowed_identity_hashes, remote_identity, link_mdu,
                   processes, child, data_buffer, lock, term_state,
                   pending_receipt, rq, pump, loop_queue, loop_pc, statuses,
                   timers, response, written, delivered, sent_stdin, chain_sent,
                   client, mainVars>>

\* the peer tears the link down, or the link times out
ListenLinkClosed(l) ==
    /\ link_status[l] = "ACTIVE"
    /\ Teardown(l, statuses, loop_queue)
    /\ UNCHANGED <<allow_all, allowed_identity_hashes, remote_identity, link_mdu,
                   data_buffer, lock, term_state, pending_receipt, rq, pump,
                   loop_pc, timers, response, written, delivered, sent_stdin,
                   chain_sent, client, mainVars>>

\* _initiator_identified; an initiator identifies once, before its first
\* request (_execute)
InitiatorIdentified(l, h) ==
    /\ link_status[l] = "ACTIVE"
    /\ remote_identity[l] = NoIdentity
    /\ remote_identity' = [remote_identity EXCEPT ![l] = h]
    /\ IF IdentityRefused(allow_all, allowed_identity_hashes, h)
       THEN Teardown(l, statuses, loop_queue)
       ELSE UNCHANGED <<link_status, child, statuses, loop_queue, processes>>
    /\ UNCHANGED <<allow_all, allowed_identity_hashes, link_mdu, data_buffer, lock,
                   term_state, pending_receipt, rq, pump, loop_pc, timers,
                   response, written, delivered, sent_stdin, chain_sent, client, mainVars>>

\* the receipt of the last notification is proved by the client
ReceiptDelivered(l) ==
    /\ link_status[l] = "ACTIVE"
    /\ pending_receipt[l] = "SENT"
    /\ pending_receipt' = [pending_receipt EXCEPT ![l] = "DELIVERED"]
    /\ UNCHANGED <<allow_all, allowed_identity_hashes, link_status,
                   remote_identity, link_mdu, processes, child, data_buffer, lock,
                   term_state, rq, pump, loop_queue, loop_pc, statuses, timers,
                   response, written, delivered, sent_stdin, chain_sent, client, mainVars>>

\* ---------------------------------------------------------------- the child

\* the child writes its next byte to its PTY
ChildWrite(l) ==
    /\ Running(child[l])
    /\ Len(written[l]) < MaxOut
    /\ child' = [child EXCEPT ![l].pty = Append(@, OutByte(Len(written[l]) + 1))]
    /\ written' = [written EXCEPT ![l] = Append(@, OutByte(Len(written[l]) + 1))]
    /\ UNCHANGED <<allow_all, allowed_identity_hashes, link_status,
                   remote_identity, link_mdu, processes, data_buffer, lock,
                   term_state, pending_receipt, rq, pump, loop_queue, loop_pc,
                   statuses, timers, response, delivered, sent_stdin, chain_sent,
                   client, mainVars>>

\* the child is reaped with return code c and the terminated callback,
\* _subproc_terminated, hands cleanup to the event loop
SubprocTerminated(l, c) ==
    /\ Running(child[l])
    /\ Len(loop_queue) < MaxQueue
    /\ child' = [child EXCEPT ![l].state = "exited", ![l].rc = c]
    /\ loop_queue' = IF GetForTag(processes, l) # NoPs
                     THEN Append(loop_queue, Item("cleanup", l, FALSE))
                     ELSE loop_queue
    /\ UNCHANGED <<allow_all, allowed_identity_hashes, link_status,
                   remote_identity, link_mdu, processes, data_buffer, lock,
                   term_state, pending_receipt, rq, pump, loop_pc, statuses,
                   timers, response, written, delivered, sent_stdin, chain_sent,
                   client, mainVars>>

\* ------------------------------------------------------- the stdout pump

\* ProcessState._stdout_data, the with-block: the reader has read the first k
\* bytes the PTY holds and appends them to the buffer under the lock
StdoutData(l, k) ==
    /\ pump[l] = "idle"
    /\ child[l].state # "none"
    /\ k \in 1..Len(child[l].pty)
    /\ Len(loop_queue) < MaxQueue
    /\ CanAcquire(lock[l], "pump")
    /\ data_buffer' = [data_buffer EXCEPT ![l] = @ \o SubSeq(child[l].pty, 1, k)]
    /\ child' = [child EXCEPT ![l].pty = SubSeq(@, k + 1, Len(@))]
    /\ pump' = [pump EXCEPT ![l] = "notify"]
    /\ UNCHANGED <<allow_all, allowed_identity_hashes, link_status,
                   remote_identity, link_mdu, processes, lock, term_state,
                   pending_receipt, rq, loop_queue, loop_pc, statuses, timers,
                   response, written, delivered, sent_stdin, chain_sent, client, mainVars>>

\* _stdout_data calls the data-available callback, _subproc_data_ready: with no
\* ProcessState registered it raises (caught by _stdout_data); with a chain for
\* the link it does nothing; else it goes on to begin one, holding the lock
SubprocDataReady(l) ==
    /\ pump[l] = "notify"
    /\ IF GetForTag(processes, l) = NoPs
       THEN pump' = [pump EXCEPT ![l] = "idle"] /\ UNCHANGED lock
       ELSE /\ CanAcquire(lock[l], "pump")
            /\ IF NotPending(statuses, l)
               THEN /\ pump' = [pump EXCEPT ![l] = "begin"]
                    /\ lock' = [lock EXCEPT ![l] = "pump"]
               ELSE pump' = [pump EXCEPT ![l] = "idle"] /\ UNCHANGED lock
    /\ UNCHANGED <<allow_all, allowed_identity_hashes, link_status,
                   remote_identity, link_mdu, processes, child, data_buffer,
                   term_state, pending_receipt, rq, loop_queue, loop_pc, statuses,
                   timers, response, written, delivered, sent_stdin, chain_sent,
                   client, mainVars>>

\* _retry_timer.begin: the first try, send(False, None, 1), hands inner to the
\* event loop and returns link.link_id, the tag of the new chain
RetryBegin(l) ==
    /\ statuses' = Append(statuses, [tag |-> l, tries |-> 1])
    /\ loop_queue' = Append(MarkOld(loop_queue, l), Item("inner", l, FALSE))
    /\ chain_sent' = [chain_sent EXCEPT ![l] = 0]

SubprocDataReadyBegin(l) ==
    /\ pump[l] = "begin"
    /\ RetryBegin(l)
    /\ lock' = [lock EXCEPT ![l] = "free"]
    /\ pump' = [pump EXCEPT ![l] = "idle"]
    /\ UNCHANGED <<allow_all, allowed_identity_hashes, link_status,
                   remote_identity, link_mdu, processes, child, data_buffer,
                   term_state, pending_receipt, rq, loop_pc, timers, response,
                   written, delivered, sent_stdin, client, mainVars>>

\* ------------------------------------------------------ the request handler

AllRequests == UNION {Requests(n) : n \in 0..MaxIn}

\* a request the transport may hand to _listen_request for link l
RequestArrives(l, d) ==
    /\ rq.pc = "idle"
    /\ link_status[l] = "ACTIVE"
    /\ RequestAllowed(l)
    /\ d \in Requests(Len(sent_stdin[l]))

\* the response is returned to the transport
Respond(l, r) ==
    /\ response' = [response EXCEPT ![l] = r]
    /\ delivered' = [delivered EXCEPT ![l] = @ \o StdoutOfResponse(r.stdout)]

\* _listen_request, data is no list: the chain is cancelled, data[1] raises
\* inside the try with no process_state, the default response is returned
ListenRequestNoList(l, d) ==
    /\ RequestArrives(l, d)
    /\ d.shape = "none"
    /\ statuses' = Complete(statuses, l)
    /\ loop_queue' = MarkStale(loop_queue, l)
    /\ Respond(l, DefaultResponse)
    /\ UNCHANGED <<allow_all, allowed_identity_hashes, link_status,
                   remote_identity, link_mdu, processes, child, data_buffer, lock,
                   term_state, pending_receipt, rq, pump, loop_pc, timers,
                   written, sent_stdin, chain_sent, client, mainVars>>

\* _listen_request: `if process_state is None`
SessionMissingAlways(ps) == TRUE
SessionMissing(ps) == ps = NoPs

\* _listen_request for a link that has left _destination.links (it closed
\* while its request was on the way to the handler): the chain is cancelled and
\* `raise Exception`, which stands before the try, leaves the handler
ListenRequestNoLink(l, d) ==
    /\ rq.pc = "idle"
    /\ link_status[l] = "CLOSED"
    /\ RequestAllowed(l)
    /\ d \in Requests(Len(sent_stdin[l]))
    /\ statuses' = Complete(statuses, l)
    /\ loop_queue' = MarkStale(loop_queue, l)
    /\ Respond(l, Raised)
    /\ UNCHANGED <<allow_all, allowed_identity_hashes, link_status,
                   remote_identity, link_mdu, processes, child, data_buffer, lock,
                   term_state, pending_receipt, rq, pump, loop_pc, timers,
                   written, sent_stdin, chain_sent, client, mainVars>>

\* _listen_request, a ProcessState is registered for the link: the chain is
\* cancelled and process_request is entered
ListenRequest(l, d) ==
    /\ RequestArrives(l, d)
    /\ d.shape = "list"
    /\ ~SessionMissing(GetForTag(processes, l))
    /\ statuses' = Complete(statuses, l)
    /\ loop_queue' = MarkStale(loop_queue, l)
    /\ rq' = [IdleRq EXCEPT !.pc = "process", !.link = l, !.field = d.field,
                            !.raw = d.raw, !.ts = d.ts]
    /\ UNCHANGED <<allow_all, allowed_identity_hashes, link_status,
                   remote_identity, link_mdu, processes, child, data_buffer, lock,
                   term_state, pending_receipt, pump, loop_pc, timers, response,
                   written, delivered, sent_stdin, chain_sent, client, mainVars>>

\* _listen_request, no ProcessState yet: _listen_start_proc constructs one, and
\* ProcessState.__init__ starts the child before it registers itself
ListenStartProc(l, d) ==
    /\ RequestArrives(l, d)
    /\ d.shape = "list"
    /\ SessionMissing(GetForTag(processes, l))
    /\ statuses' = Complete(statuses, l)
    /\ loop_queue' = MarkStale(loop_queue, l)
    /\ child' = [child EXCEPT ![l] = [NoChild EXCEPT
                                        !.state = "running",
                                        !.spawned = child[l].spawned + 1]]
    /\ data_buffer' = [data_buffer EXCEPT ![l] = <<>>]
    /\ pending_receipt' = [pending_receipt EXCEPT ![l] = "None"]
    /\ term_state' = [term_state EXCEPT ![l] = NoTermState]
    /\ rq' = [IdleRq EXCEPT !.pc = "put", !.link = l, !.field = d.field,
                            !.raw = d.raw, !.ts = d.ts]
    /\ UNCHANGED <<allow_all, allowed_identity_hashes, link_status,
                   remote_identity, link_mdu, processes, lock, pump, loop_pc,
                   timers, response, written, delivered, sent_stdin, chain_sent,
                   client, mainVars>>

\* _listen_start_proc, the child fails to start: _subproc_terminated(link, 255)
\* finds no ProcessState and returns, None is returned, None.process_request
\* raises and the default response is returned
ListenStartProcFails(l, d) ==
    /\ RequestArrives(l, d)
    /\ d.shape = "list"
    /\ SessionMissing(GetForTag(processes, l))
    /\ statuses' = Complete(statuses, l)
    /\ loop_queue' = MarkStale(loop_queue, l)
    /\ Respond(l, DefaultResponse)
    /\ UNCHANGED <<allow_all, allowed_identity_hashes, link_status,
                   remote_identity, link_mdu, processes, child, data_buffer, lock,
                   term_state, pending_receipt, rq, pump, loop_pc, timers,
                   written, sent_stdin, chain_sent, client, mainVars>>

\* ProcessState.__init__, its last line: ProcessState.put_for_tag(tag, self)
ProcessStateRegister ==
    /\ rq.pc = "put"
    /\ processes' = PutForTag(processes, rq.link, rq.link)
    /\ rq' = [rq EXCEPT !.pc = "process"]
    /\ UNCHANGED <<allow_all, allowed_identity_hashes, link_status,
                   remote_identity, link_mdu, child, data_buffer, lock,
                   term_state, pending_receipt, pump, loop_queue, loop_pc,
                   statuses, timers, response, written, delivered, sent_stdin,
                   chain_sent, client, mainVars>>

\* _update_winsz: the arguments of set_winsize are read from _term_state at
\* TERMSTATE_IDX_ROWS .. TERMSTATE_IDX_VPIX; a position that the list does not
\* have raises IndexError before the call is made, and the except logs it
UpdateWinsz(ts) ==
    LET at == <<TERMSTATE_IDX_ROWS, TERMSTATE_IDX_COLS, TERMSTATE_IDX_HPIX,
                TERMSTATE_IDX_VPIX>>
    IN  IF \A k \in 1..Len(at) : at[k] + 1 \in DOMAIN ts
        THEN [raised |-> FALSE, args |-> [k \in 1..Len(at) |-> ts[at[k] + 1]]]
        ELSE [raised |-> TRUE, args |-> <<>>]

\* process_request: `if self.process.running:` `if term_state != self._term_state:`
TermStateDiffersAlways(running, ts, cached) == ts # cached
TermStateDiffers(running, ts, cached) == running /\ ts # cached

\* process_request: running is sampled; for a running child a terminal state
\* that differs from the cached one is cached and _update_winsz is called,
\* which issues set_winsize unless it raises
ProcessRequestWinsize ==
    LET l == rq.link
        running == Running(child[l])
        differs == TermStateDiffers(running, rq.ts, term_state[l])
        call == UpdateWinsz(rq.ts)
        issued == differs /\ ~call.raised
    IN  /\ rq.pc = "process"
        /\ rq' = [rq EXCEPT !.pc = "stdin", !.running = running,
                            !.set_winsize = issued]
        /\ term_state' = IF differs THEN [term_state EXCEPT ![l] = rq.ts] ELSE term_state
        /\ child' = IF issued THEN [child EXCEPT ![l].winsz = call.args] ELSE child
        /\ UNCHANGED <<allow_all, allowed_identity_hashes, link_status,
                       remote_identity, link_mdu, processes, data_buffer, lock,
                       pending_receipt, pump, loop_queue, loop_pc, statuses,
                       timers, response, written, delivered, sent_stdin,
                       chain_sent, client, mainVars>>

\* process_request: for a child sampled running, a stdin field that is present
\* and non-empty is decoded and written (a write to a child that has exited
\* meanwhile is dropped)
ProcessRequestStdin ==
    LET l == rq.link
        bytes == StdinToWrite(rq.field)
        alive == Running(child[l])
    IN  /\ rq.pc = "stdin"
        /\ ~(rq.running /\ rq.field # NoneSeq /\ ~B64Valid(rq.field))
        /\ rq' = [rq EXCEPT !.pc = "read"]
        /\ child' = IF rq.running /\ alive
                    THEN [child EXCEPT ![l].stdin = @ \o bytes]
                    ELSE child
        /\ sent_stdin' = IF alive
                         THEN [sent_stdin EXCEPT ![l] = @ \o rq.raw]
                         ELSE sent_stdin
        /\ UNCHANGED <<allow_all, allowed_identity_hashes, link_status,
                       remote_identity, link_mdu, processes, data_buffer, lock,
                       term_state, pending_receipt, pump, loop_queue, loop_pc,
                       statuses, timers, response, written, delivered,
                       chain_sent, client, mainVars>>

\* process_request, b64decode raises: _listen_request's except terminates a
\* running child and the default response is returned
ProcessRequestRaises ==
    LET l == rq.link
    IN  /\ rq.pc = "stdin"
        /\ rq.running /\ rq.field # NoneSeq /\ ~B64Valid(rq.field)
        /\ child' = [child EXCEPT ![l] = Terminate(@)]
        /\ rq' = IdleRq
        /\ Respond(l, DefaultResponse)
        /\ UNCHANGED <<allow_all, allowed_identity_hashes, link_status,
                       remote_identity, link_mdu, processes, data_buffer, lock,
                       term_state, pending_receipt, pump, loop_queue, loop_pc,
                       statuses, timers, written, sent_stdin, chain_sent, client, mainVars>>

\* process_request: return_code is sampled, the lock is taken and read(read_size)
\* takes the head of the buffer
ProcessRequestRead ==
    LET l == rq.link
        count == ReadSize(link_mdu[l])
    IN  /\ rq.pc = "read"
        /\ CanAcquire(lock[l], "rq")
        /\ lock' = [lock EXCEPT ![l] = "rq"]
        /\ rq' = [rq EXCEPT !.pc = "rdy", !.rc = child[l].rc,
                            !.take = ReadTake(data_buffer[l], count),
                            !.before = data_buffer[l]]
        /\ data_buffer' = [data_buffer EXCEPT ![l] = ReadRest(@, count)]
        /\ UNCHANGED <<allow_all, allowed_identity_hashes, link_status,
                       remote_identity, link_mdu, processes, child, term_state,
                       pending_receipt, pump, loop_queue, loop_pc, statuses,
                       timers, response, written, delivered, sent_stdin,
                       chain_sent, client, mainVars>>

\* process_request: ready_bytes is sampled under the same lock, the lock is
\* released and the response is returned
ProcessRequestReturn ==
    LET l == rq.link
    IN  /\ rq.pc = "rdy"
        /\ lock' = [lock EXCEPT ![l] = "free"]
        /\ rq' = IdleRq
        /\ Respond(l, [some |-> TRUE, by |-> "process_request",
                       running |-> rq.running, rc |-> rq.rc,
                       rdy |-> Len(data_buffer[l]),
                       stdout |-> StdoutField(rq.take), before |-> rq.before])
        /\ UNCHANGED <<allow_all, allowed_identity_hashes, link_status,
                       remote_identity, link_mdu, processes, child, data_buffer,
                       term_state, pending_receipt, pump, loop_queue, loop_pc,
                       statuses, timers, written, sent_stdin, chain_sent, client, mainVars>>

\* ------------------------------------------------------------ the retry timer

\* try_limit of the chain _subproc_data_ready begins
TryLimitSixteen == 15 + 1
TryLimit == 15

\* the retry thread finds chain i due and below its try limit: tries is
\* counted up and the try callback, send(False, tag, tries), hands inner to the
\* event loop
RetryTry(i) ==
    /\ i \in DOMAIN statuses
    /\ ~TimedOut(statuses[i].tries, TryLimit)
    /\ Len(loop_queue) < MaxQueue
    /\ statuses' = [statuses EXCEPT ![i].tries = @ + 1]
    /\ loop_queue' = Append(loop_queue, Item("inner", statuses[i].tag, FALSE))
    /\ UNCHANGED <<allow_all, allowed_identity_hashes, link_status,
                   remote_identity, link_mdu, processes, child, data_buffer, lock,
                   term_state, pending_receipt, rq, pump, loop_pc, timers,
                   response, written, delivered, sent_stdin, chain_sent, client, mainVars>>

\* the retry thread finds chain i due with its tries used up: the timeout
\* callback, send(True, tag, tries), hands inner to the event loop and the
\* chain is pruned
RetryTimeout(i) ==
    /\ i \in DOMAIN statuses
    /\ TimedOut(statuses[i].tries, TryLimit)
    /\ Len(loop_queue) < MaxQueue
    /\ statuses' = SubSeq(statuses, 1, i - 1) \o SubSeq(statuses, i + 1, Len(statuses))
    /\ loop_queue' = Append(loop_queue, Item("inner", statuses[i].tag, TRUE))
    /\ UNCHANGED <<allow_all, allowed_identity_hashes, link_status,
                   remote_identity, link_mdu, processes, child, data_buffer, lock,
                   term_state, pending_receipt, rq, pump, loop_pc, timers,
                   response, written, delivered, sent_stdin, chain_sent, client, mainVars>>

\* ------------------------------------------------------------ the event loop

LoopHead(kind) ==
    /\ loop_pc.pc = "idle"
    /\ loop_queue # <<>>
    /\ Head(loop_queue).k = kind

\* inner: `link.status != RNS.Link.ACTIVE`, negated
LinkActiveAlways(status) == TRUE
LinkActive(status) == status = "ACTIVE"

\* inner: `pr is not None and pr.status == RNS.PacketReceipt.DELIVERED`
ReceiptIsDeliveredNever(pr) == FALSE
ReceiptIsDelivered(pr) == pr = "DELIVERED"

\* inner of send, the link is not ACTIVE: the chain is cancelled and the
\* receipt dropped
InnerNotActive ==
    LET l == Head(loop_queue).l
    IN  /\ LoopHead("inner")
        /\ ~LinkActive(link_status[l])
        /\ CanAcquire(lock[l], "loop")
        /\ statuses' = Complete(statuses, l)
        /\ loop_queue' = MarkStale(Tail(loop_queue), l)
        /\ pending_receipt' = [pending_receipt EXCEPT ![l] = "None"]
        /\ not_active' = not_active \cup {l}
        /\ UNCHANGED <<allow_all, allowed_identity_hashes, link_status,
                       remote_identity, link_mdu, processes, child, data_buffer,
                       lock, term_state, rq, pump, loop_pc, timers, response,
                       written, delivered, sent_stdin, chain_sent, client,
                       serve, registry_op, lockVars>>

\* inner of send, the receipt taken is DELIVERED: a try cancels the chain, a
\* timeout only returns
InnerDelivered ==
    LET l == Head(loop_queue).l
        timeout == Head(loop_queue).timeout
    IN  /\ LoopHead("inner")
        /\ LinkActive(link_status[l])
        /\ CanAcquire(lock[l], "loop")
        /\ ReceiptIsDelivered(pending_receipt[l])
        /\ pending_receipt' = [pending_receipt EXCEPT ![l] = "None"]
        /\ statuses' = IF timeout THEN statuses ELSE Complete(statuses, l)
        /\ loop_queue' = IF timeout THEN Tail(loop_queue)
                         ELSE MarkStale(Tail(loop_queue), l)
        /\ UNCHANGED <<allow_all, allowed_identity_hashes, link_status,
                       remote_identity, link_mdu, processes, child, data_buffer,
                       lock, term_state, rq, pump, loop_pc, timers, response,
                       written, delivered, sent_stdin, chain_sent, client, mainVars>>

\* inner of send, a try with no DELIVERED receipt: a `data available` packet is
\* sent and its receipt kept
InnerSend ==
    LET l == Head(loop_queue).l
    IN  /\ LoopHead("inner")
        /\ LinkActive(link_status[l])
        /\ CanAcquire(lock[l], "loop")
        /\ ~ReceiptIsDelivered(pending_receipt[l])
        /\ ~Head(loop_queue).timeout
        /\ pending_receipt' = [pending_receipt EXCEPT ![l] = "SENT"]
        /\ chain_sent' = IF Head(loop_queue).old THEN chain_sent
                         ELSE [chain_sent EXCEPT ![l] = @ + 1]
        /\ loop_queue' = Tail(loop_queue)
        /\ UNCHANGED <<allow_all, allowed_identity_hashes, link_status,
                       remote_identity, link_mdu, processes, child, data_buffer,
                       lock, term_state, rq, pump, loop_pc, statuses, timers,
                       response, written, delivered, sent_stdin, client, mainVars>>

\* inner of send, the timeout with no DELIVERED receipt: the chain is cancelled
\* and the link torn down
InnerTimeout ==
    LET l == Head(loop_queue).l
    IN  /\ LoopHead("inner")
        /\ LinkActive(link_status[l])
        /\ CanAcquire(lock[l], "loop")
        /\ ~ReceiptIsDelivered(pending_receipt[l])
        /\ Head(loop_queue).timeout
        /\ pending_receipt' = [pending_receipt EXCEPT ![l] = "None"]
        /\ Teardown(l, Complete(statuses, l), MarkStale(Tail(loop_queue), l))
        /\ UNCHANGED <<allow_all, allowed_identity_hashes, remote_identity,
                       link_mdu, data_buffer, lock, term_state, rq, pump, loop_pc,
                       timers, response, written, delivered, sent_stdin,
                       chain_sent, client, mainVars>>

\* cleanup of _subproc_terminated: the cull is set for 300 s later and
\* _subproc_data_ready(link, 0) is handed to the loop
SubprocTerminatedCleanup ==
    LET l == Head(loop_queue).l
    IN  /\ LoopHead("cleanup")
        /\ timers' = timers \cup {l}
        /\ loop_queue' = Append(Tail(loop_queue),
                                Item("data_ready", l, FALSE))
        /\ UNCHANGED <<allow_all, allowed_identity_hashes, link_status,
                       remote_identity, link_mdu, processes, child, data_buffer,
                       lock, term_state, pending_receipt, rq, pump, loop_pc,
                       statuses, response, written, delivered, sent_stdin,
                       chain_sent, client, mainVars>>

\* _subproc_data_ready(link, 0) on the event loop, as in SubprocDataReady
LoopDataReady ==
    LET l == Head(loop_queue).l
    IN  /\ LoopHead("data_ready")
        /\ loop_queue' = Tail(loop_queue)
        /\ IF GetForTag(processes, l) = NoPs
           THEN UNCHANGED <<lock, loop_pc>>
           ELSE /\ CanAcquire(lock[l], "loop")
                /\ IF NotPending(statuses, l)
                   THEN /\ loop_pc' = [pc |-> "begin", l |-> l]
                        /\ lock' = [lock EXCEPT ![l] = "loop"]
                   ELSE UNCHANGED <<lock, loop_pc>>
        /\ UNCHANGED <<allow_all, allowed_identity_hashes, link_status,
                       remote_identity, link_mdu, processes, child, data_buffer,
                       term_state, pending_receipt, rq, pump, statuses, timers,
                       response, written, delivered, sent_stdin, chain_sent,
                       client, mainVars>>

LoopDataReadyBegin ==
    LET l == loop_pc.l
    IN  /\ loop_pc.pc = "begin"
        /\ RetryBegin(l)
        /\ lock' = [lock EXCEPT ![l] = "free"]
        /\ loop_pc' = [pc |-> "idle", l |-> 0]
        /\ UNCHANGED <<allow_all, allowed_identity_hashes, link_status,
                       remote_identity, link_mdu, processes, child, data_buffer,
                       term_state, pending_receipt, rq, pump, timers, response,
                       written, delivered, sent_stdin, client, mainVars>>

\* inner of cleanup, 300 s after the child was reaped: a link that is not
\* CLOSED is torn down and then its tag cleared
CleanupCull(l) ==
    /\ loop_pc.pc = "idle"
    /\ l \in timers
    /\ timers' = timers \ {l}
    /\ IF link_status[l] # "CLOSED"
       THEN Teardown(l, statuses, loop_queue)
       ELSE UNCHANGED <<link_status, child, statuses, loop_queue, processes>>
    /\ UNCHANGED <<allow_all, allowed_identity_hashes, remote_identity, link_mdu,
                   data_buffer, lock, term_state, pending_receipt, rq, pump,
                   loop_pc, response, written, delivered, sent_stdin, chain_sent,
                   client, mainVars>>

\* ------------------------------------------------------------ the registry

\* the tags and the Sessions the registry operations are applied to
RegistryTags == {1, 2}
RegistrySessions == {1, 2, 3}

\* ProcessState.put_for_tag(tag, ps), called on the registry as it stands
RegistryPut(tag, ps) ==
    /\ Len(processes) < MaxRegistry
    /\ processes' = PutForTag(processes, tag, ps)
    /\ registry_op' = [op |-> "put", tag |-> tag, ps |-> ps, before |-> processes]
    /\ UNCHANGED <<allow_all, allowed_identity_hashes, link_status,
                   remote_identity, link_mdu, child, data_buffer, lock,
                   term_state, pending_receipt, rq, pump, loop_queue, loop_pc,
                   statuses, timers, response, written, delivered, sent_stdin,
                   chain_sent, client, serve, not_active, lockVars>>

\* ProcessState.clear_tag(tag), called on the registry as it stands
RegistryClear(tag) ==
    /\ processes' = ClearTag(processes, tag)
    /\ registry_op' = [op |-> "clear", tag |-> tag, ps |-> NoPs,
                       before |-> processes]
    /\ UNCHANGED <<allow_all, allowed_identity_hashes, link_status,
                   remote_identity, link_mdu, child, data_buffer, lock,
                   term_state, pending_receipt, rq, pump, loop_queue, loop_pc,
                   statuses, timers, response, written, delivered, sent_stdin,
                   chain_sent, client, serve, not_active, lockVars>>

\* ------------------------------------------------- the listener's main loop

\* _sigint_handler, installed by main on the event loop after _finished has
\* been made an Event: the event is set, nothing is raised
SigintHandler ==
    /\ serve.pc = "serving"
    /\ ~serve.finished
    /\ serve' = [serve EXCEPT !.finished = TRUE]
    /\ UNCHANGED <<allow_all, allowed_identity_hashes, link_status,
                   remote_identity, link_mdu, processes, child, data_buffer, lock,
                   term_state, pending_receipt, rq, pump, loop_queue, loop_pc,
                   statuses, timers, response, written, delivered, sent_stdin,
                   chain_sent, client, registry_op, not_active, lockVars>>

\* _listen, one pass of `while True` with no announce due:
\* `await _check_finished(1.0)` returns when the event is set or 1 s has
\* passed, its result is not looked at, and the loop goes on
ServeLoop ==
    /\ serve.pc = "serving"
    /\ serve.disable_announce \/ serve.last = "time"
    /\ serve' = [serve EXCEPT !.tick = 1 - @]
    /\ UNCHANGED <<allow_all, allowed_identity_hashes, link_status,
                   remote_identity, link_mdu, processes, child, data_buffer, lock,
                   term_state, pending_receipt, rq, pump, loop_queue, loop_pc,
                   statuses, timers, response, written, delivered, sent_stdin,
                   chain_sent, client, registry_op, not_active, lockVars>>

\* _listen, a pass more than 900 s after the last announce:
\* `last = datetime.datetime.now()` and the destination is announced
ServeAnnounce ==
    /\ serve.pc = "serving"
    /\ ~serve.disable_announce
    /\ serve.last = "time"
    /\ serve' = [serve EXCEPT !.tick = 1 - @, !.last = "datetime"]
    /\ UNCHANGED <<allow_all, allowed_identity_hashes, link_status,
                   remote_identity, link_mdu, processes, child, data_buffer, lock,
                   term_state, pending_receipt, rq, pump, loop_queue, loop_pc,
                   statuses, timers, response, written, delivered, sent_stdin,
                   chain_sent, client, registry_op, not_active, lockVars>>

\* _listen, the pass after an announce made in the loop: `time.time() - last`
\* with a datetime raises TypeError, which `except KeyboardInterrupt` does not
\* catch; _listen ends by the exception, no child is terminated and no link
\* torn down
ServeRaises ==
    /\ serve.pc = "serving"
    /\ ~serve.disable_announce
    /\ serve.last = "datetime"
    /\ serve' = [serve EXCEPT !.pc = "raised"]
    /\ UNCHANGED <<allow_all, allowed_identity_hashes, link_status,
                   remote_identity, link_mdu, processes, child, data_buffer, lock,
                   term_state, pending_receipt, rq, pump, loop_queue, loop_pc,
                   statuses, timers, response, written, delivered, sent_stdin,
                   chain_sent, client, registry_op, not_active, lockVars>>

\* ---------------------------------------------------------------- the client

\* Python's `x or y` for a return code or a count: None and 0 are falsy
PyOr(x, y) == IF x = NoneRc \/ x = 0 THEN y ELSE x

\* Python's `x or True` for the running field
PyOrTrue(x) == IF x THEN x ELSE TRUE

\* _execute, a response was received: the value returned
ExecuteResult(r) ==
    LET running == PyOrTrue(r.running)
        return_code == r.rc
        ready_bytes == PyOr(r.rdy, 0)
    IN  IF (~running \/ return_code # NoneRc) /\ ready_bytes = 0
        THEN PyOr(return_code, 255)
        ELSE NoneRc

\* main: `return return_code if args_mirror else 0`
MainReturn(mirror, return_code) == IF mirror THEN return_code ELSE 0

\* the responses a listener may return: the default response and those
\* process_request builds
ClientResponses ==
    {[some |-> TRUE, by |-> b, running |-> r, rc |-> c, rdy |-> n, stdout |-> o,
      before |-> <<>>] :
        b \in {"process_request"}, r \in BOOLEAN, c \in {NoneRc} \cup RetCodes,
        n \in {0, 1}, o \in {NoneSeq, B64Encode(<<OutByte(1)>>)}}
    \cup {DefaultResponse}

\* RNS.Reticulum.TRUNCATED_HASHLENGTH, in bits
TRUNCATED_HASHLENGTH == 128

\* _execute: dest_len, the number of hexadecimal characters of a destination
DestLen == (TRUNCATED_HASHLENGTH \div 8) * 2

\* the destinations a user may give: a string of some length, of hexadecimal
\* characters only or not
DestLengths == {4, DestLen, DestLen + 2}
Destinations == {[len |-> n, hex |-> h] : n \in DestLengths, h \in BOOLEAN}

\* the messages of RemoteExecutionError, word by word
MsgLength ==
    <<"Allowed", "destination", "length", "is", "invalid,", "must", "be",
      ToString(DestLen), "hexadecimal", "characters",
      "(" \o ToString(DestLen \div 2), "bytes).">>
MsgInvalid == <<"Invalid", "destination", "entered.", "Check", "your", "input.">>
MsgPath == <<"Path", "not", "found">>
MsgLink == <<"Could", "not", "establish", "link", "with", "<destination>">>
MsgClosed ==
    <<"Could", "not", "request", "remote", "execution,", "link", "was", "closed">>
MsgFailed == <<"Could", "not", "request", "remote", "execution">>

\* whether the words of `part` stand in `msg` one after the other
Contains(msg, part) ==
    \E i \in 0..(Len(msg) - Len(part)) :
        \A j \in 1..Len(part) : msg[i + j] = part[j]

\* main: the arguments name a destination d; -m and -N are given or not
ClientMain(m, n, d) ==
    /\ client.pc = "off"
    /\ client' = [client EXCEPT !.pc = "execute", !.mirror = m, !.noid = n,
                                !.destination = d]
    /\ UNCHANGED listenerVars

\* _initiate, `except RemoteExecutionError as e`: e.msg is printed and 255 is
\* returned
Raise(c, msg) ==
    [c EXCEPT !.pc = "exit", !.return_code = 255, !.error = TRUE,
              !.printed = msg]

\* str.encode("utf-8") of one character, by its code point (below 2048)
Utf8(cp) ==
    IF cp < 128 THEN <<cp>> ELSE <<192 + (cp \div 64), 128 + (cp % 64)>>

\* _initiate.sigint_handler: data_buffer.extend("\x03".encode("utf-8"))
SigintHandlerIgnores(buffer) == buffer
InitiateSigintHandler(buffer) == buffer \o Utf8(3)

\* SIGINT is delivered to the client.  Until the first _execute has returned
\* the handler is _sigint_handler, which sets _finished; from then on it is
\* _initiate.sigint_handler.  A SIGINT is taken only while the client may
\* still send two requests.
ClientSigint ==
    /\ client.pc \notin {"off", "exit", "raised", "unwind", "done", "died"}
    /\ client.sigints < MaxSigint
    /\ client.requests + 2 <= MaxRequests
    /\ client' = IF client.first_loop
                 THEN [client EXCEPT !.sigints = @ + 1, !.finished = TRUE]
                 ELSE [client EXCEPT !.sigints = @ + 1, !.inband = @ + 1,
                           !.data_buffer = InitiateSigintHandler(@)]
    /\ UNCHANGED listenerVars

\* _initiate.stdin, the reader callback of the terminal: the byte read is
\* appended to the buffer
InitiateStdin ==
    /\ client.pc \notin {"off", "exit", "raised", "unwind", "done", "died"}
    /\ client.typed < MaxIn
    /\ client' = [client EXCEPT !.typed = @ + 1,
                                !.data_buffer = Append(@, InByte(client.typed + 1))]
    /\ UNCHANGED listenerVars

\* _execute: the request is built with base64.b64encode(stdin) in its stdin
\* field and handed to the link; `carried` is what the stdin fields of all
\* requests decode to; `requests` counts the requests up to MaxRequests
LinkRequest(c) ==
    [c EXCEPT !.requests = Min(@ + 1, MaxRequests),
              !.carried = @ \o B64Decode(B64Encode(c.stdin))]

\* _execute: `len(destination) != dest_len`
DestLengthInvalidNever(d) == FALSE
DestLengthInvalid(d) == d.len # DestLen

\* _initiate, the top of its loop: stdin is a copy of the buffer and the
\* buffer is cleared; _execute, its first lines: a destination of the wrong
\* length, or one that bytes.fromhex does not take, raises
\* RemoteExecutionError
ExecuteDestination ==
    LET c == [client EXCEPT !.stdin = client.data_buffer, !.data_buffer = <<>>]
    IN  /\ client.pc = "execute"
        /\ client' = IF DestLengthInvalid(c.destination)
                     THEN Raise(c, MsgLength)
                     ELSE IF ~c.destination.hex
                          THEN Raise(c, MsgInvalid)
                          ELSE [c EXCEPT !.pc = "path"]
        /\ UNCHANGED listenerVars

\* _execute: a path to the destination is known or found in time, or
\* `Path not found` is raised
ExecutePath(found) ==
    /\ client.pc = "path"
    /\ client' = IF found
                 THEN [client EXCEPT !.pc = "link", !.path = TRUE]
                 ELSE Raise([client EXCEPT !.path = TRUE], MsgPath)
    /\ UNCHANGED listenerVars

\* _execute: a link is made if there is none or a PENDING one; it becomes
\* ACTIVE in time, and the client identifies once unless -N is given, or
\* `Could not establish link` is raised
ExecuteLink(active) ==
    /\ client.pc = "link"
    /\ client' = IF active /\ client.link # "CLOSED"
                 THEN [client EXCEPT !.pc = "request", !.link = "ACTIVE",
                                     !.did_identify = @ \/ ~client.noid]
                 ELSE Raise([client EXCEPT
                                !.link = IF @ = "none" THEN "PENDING" ELSE @],
                            MsgLink)
    /\ UNCHANGED listenerVars

\* _execute: the request is sent and the link closes before it is answered
ExecuteRequestClosed ==
    /\ client.pc = "request"
    /\ client.requests < MaxRequests
    /\ client' = Raise([LinkRequest(client) EXCEPT !.link = "CLOSED"], MsgClosed)
    /\ UNCHANGED listenerVars

\* _execute: the request is sent and its receipt becomes FAILED
ExecuteRequestFailed ==
    /\ client.pc = "request"
    /\ client.requests < MaxRequests
    /\ client' = Raise(LinkRequest(client), MsgFailed)
    /\ UNCHANGED listenerVars

\* _execute: the request is sent and the wait ends with no response; None is
\* returned; _initiate, after its first _execute, makes sigint_handler the
\* handler of SIGINT, and goes on to wait for the wake event
ExecuteRequestNoResponse ==
    /\ client.pc = "request"
    /\ client.requests < MaxRequests
    /\ client' = [LinkRequest(client) EXCEPT !.pc = "wait", !.first_loop = FALSE]
    /\ UNCHANGED listenerVars

\* _execute: the request is answered by r; the terminal is put into raw mode,
\* the stdout is decoded and written; _initiate tears the link down and returns
\* a return code that is not None, and waits for the wake event otherwise;
\* after its first _execute it makes sigint_handler the handler of SIGINT
ExecuteAnswered(r) ==
    LET return_code == ExecuteResult(r)
    IN  /\ client.pc = "request"
        /\ client' = [TtyRaw(LinkRequest(client)) EXCEPT
                        !.first_loop = FALSE,
                        !.out = @ \o StdoutOfResponse(r.stdout),
                        !.last = r,
                        !.return_code = return_code,
                        !.link = IF return_code # NoneRc THEN "CLOSED" ELSE @,
                        !.pc = IF return_code # NoneRc THEN "exit" ELSE "wait"]
        /\ UNCHANGED listenerVars

\* the same, for one of the first MaxRequests requests
ExecuteResponse(r) == client.requests < MaxRequests /\ ExecuteAnswered(r)

\* _initiate: the wake event is set, or 5 s have passed
InitiateWait ==
    /\ client.pc = "wait"
    /\ client' = [client EXCEPT !.pc = "execute"]
    /\ UNCHANGED listenerVars

\* _execute: the request is answered by r with a stdout; the terminal is put
\* into raw mode and os.write raises OSError (the client's stdout is a pipe
\* whose reader has gone), which is no RemoteExecutionError: it leaves
\* _initiate
ExecuteResponseRaises(r) ==
    /\ client.pc = "request"
    /\ client.requests < MaxRequests
    /\ r.stdout # NoneSeq
    /\ client' = [TtyRaw(LinkRequest(client)) EXCEPT !.last = r, !.pc = "raised"]
    /\ UNCHANGED listenerVars

\* main, the bare `except` around _initiate: _tr.restore(), and the exception
\* is raised again
MainExcept ==
    /\ client.pc = "raised"
    /\ client' = [TtyRestore(client) EXCEPT !.pc = "unwind"]
    /\ UNCHANGED listenerVars

\* __main__, asyncio.run(main()) has raised: the `finally` block restores the
\* terminal, sys.exit is not reached and the interpreter ends with status 1
MainDies ==
    /\ client.pc = "unwind"
    /\ client' = [TtyRestore(client) EXCEPT !.pc = "died", !.exit = 1]
    /\ UNCHANGED listenerVars

\* main returns; the `finally` block of __main__ restores the terminal and the
\* process exits with what main returned
MainExit ==
    /\ client.pc = "exit"
    /\ client' = [TtyRestore(client) EXCEPT
                    !.pc = "done",
                    !.exit = MainReturn(client.mirror, client.return_code)]
    /\ UNCHANGED listenerVars

\* ------------------------------------------------------------ specifications

Init == ListenerInit /\ client = NoClient /\ serve = Serving(TRUE)

\* The listener's stdout path.  The environment: a listener started with -n
\* (no allow-list, no identification needed), requests that carry no stdin and
\* one terminal state, a child that may fail to start, notifications whose
\* receipts are not proved and whose retry delay and 300 s cull do not elapse.
StdoutRequests ==
    {d \in AllRequests : d.shape = "list" /\ d.ts = TermState(Vt24x80) /\ d.raw = <<>>
                         /\ d.field # Malformed}

Next ==
    \/ \E l \in Links : ListenLinkEstablished(l)
    \/ \E l \in Links : ListenLinkClosed(l)
    \/ \E l \in Links : ChildWrite(l)
    \/ \E l \in Links, c \in RetCodes : SubprocTerminated(l, c)
    \/ \E l \in Links, k \in 1..MaxOut : StdoutData(l, k)
    \/ \E l \in Links : SubprocDataReady(l)
    \/ \E l \in Links : SubprocDataReadyBegin(l)
    \/ \E l \in Links, d \in StdoutRequests : ListenRequest(l, d)
    \/ \E l \in Links, d \in StdoutRequests : ListenStartProc(l, d)
    \/ \E l \in Links, d \in StdoutRequests : ListenStartProcFails(l, d)
    \/ ProcessStateRegister
    \/ ProcessRequestWinsize
    \/ ProcessRequestStdin
    \/ ProcessRequestRead
    \/ ProcessRequestReturn
    \/ InnerNotActive
    \/ InnerSend
    \/ SubprocTerminatedCleanup
    \/ LoopDataReady
    \/ LoopDataReadyBegin

StdoutInit == Init /\ allow_all

Spec == StdoutInit /\ [][Next]_vars

\* The listener's stdin path.  The environment: a listener started with -n, a
\* child that writes nothing, requests of every shape (stdin segments as
\* _execute encodes them, none, empty, undecodable, or no list at all) and
\* either terminal state.
NextStdin ==
    \/ \E l \in Links : ListenLinkEstablished(l)
    \/ \E l \in Links : ListenLinkClosed(l)
    \/ \E l \in Links, c \in RetCodes : SubprocTerminated(l, c)
    \/ \E l \in Links, d \in AllRequests : ListenRequestNoList(l, d)
    \/ \E l \in Links, d \in AllRequests : ListenRequest(l, d)
    \/ \E l \in Links, d \in AllRequests : ListenStartProc(l, d)
    \/ \E l \in Links, d \in AllRequests : ListenStartProcFails(l, d)
    \/ ProcessStateRegister
    \/ ProcessRequestWinsize
    \/ ProcessRequestStdin
    \/ ProcessRequestRaises
    \/ ProcessRequestRead
    \/ ProcessRequestReturn
    \/ InnerNotActive
    \/ InnerSend
    \/ SubprocTerminatedCleanup
    \/ LoopDataReady
    \/ LoopDataReadyBegin

SpecStdin == StdoutInit /\ [][NextStdin]_vars

\* The listener's notifications.  The environment: a listener started with
\* -n, requests that carry no stdin, a pump that hands over all the PTY holds,
\* a child that does not exit, a retry thread that finds chains due, a client
\* that may prove the receipt of a notification, a link that may close.
NotifyRequests ==
    {d \in AllRequests : d.shape = "list" /\ d.ts = TermState(Vt24x80) /\ d.field = NoneSeq}

NextNotify ==
    \/ \E l \in Links : ListenLinkEstablished(l)
    \/ \E l \in Links : ListenLinkClosed(l)
    \/ \E l \in Links : ReceiptDelivered(l)
    \/ \E l \in Links : ChildWrite(l)
    \/ \E l \in Links : StdoutData(l, Len(child[l].pty))
    \/ \E l \in Links : SubprocDataReady(l)
    \/ \E l \in Links : SubprocDataReadyBegin(l)
    \/ \E l \in Links, d \in NotifyRequests : ListenRequest(l, d)
    \/ \E l \in Links, d \in NotifyRequests : ListenStartProc(l, d)
    \/ ProcessStateRegister
    \/ ProcessRequestWinsize
    \/ ProcessRequestStdin
    \/ ProcessRequestRead
    \/ ProcessRequestReturn
    \/ \E i \in DOMAIN statuses : RetryTry(i)
    \/ \E i \in DOMAIN statuses : RetryTimeout(i)
    \/ InnerNotActive
    \/ InnerDelivered
    \/ InnerSend
    \/ InnerTimeout

NotifyInit == StdoutInit /\ link_mdu = [l \in Links |-> 2]

SpecNotify == NotifyInit /\ [][NextNotify]_vars

\* The callers of the data-available callback.  The environment: as for the
\* notifications, but the child may exit, so that the event loop calls
\* _subproc_data_ready while the pump does; receipts are not proved and the
\* link is closed only by the listener.
NextCoalesce ==
    \/ \E l \in Links : ListenLinkEstablished(l)
    \/ \E l \in Links : ChildWrite(l)
    \/ \E l \in Links : SubprocTerminated(l, 0)
    \/ \E l \in Links : StdoutData(l, Len(child[l].pty))
    \/ \E l \in Links : SubprocDataReady(l)
    \/ \E l \in Links : SubprocDataReadyBegin(l)
    \/ \E l \in Links, d \in NotifyRequests : ListenRequest(l, d)
    \/ \E l \in Links, d \in NotifyRequests : ListenStartProc(l, d)
    \/ ProcessStateRegister
    \/ ProcessRequestWinsize
    \/ ProcessRequestStdin
    \/ ProcessRequestRead
    \/ ProcessRequestReturn
    \/ \E i \in DOMAIN statuses : RetryTry(i)
    \/ \E i \in DOMAIN statuses : RetryTimeout(i)
    \/ InnerNotActive
    \/ InnerSend
    \/ InnerTimeout
    \/ SubprocTerminatedCleanup
    \/ LoopDataReady
    \/ LoopDataReadyBegin

SpecCoalesce == NotifyInit /\ [][NextCoalesce]_vars

\* The listener behind an allow-list.  The environment: as for the stdin
\* path, with a listener started with -a and initiators that identify, once
\* per link as _execute does, with an identity of the list or another.
NextAuth ==
    \/ NextStdin
    \/ \E l \in Links, h \in Identities : InitiatorIdentified(l, h)

AuthInit == Init /\ ~allow_all

SpecAuth == AuthInit /\ [][NextAuth]_vars

\* The client.  The environment: a transport that finds a path or not and
\* brings the link up or not, and a listener that answers a request, or not,
\* with any response it can build.
NextClient ==
    \/ \E m \in BOOLEAN, n \in BOOLEAN, d \in Destinations : ClientMain(m, n, d)
    \/ ExecuteDestination
    \/ \E found \in BOOLEAN : ExecutePath(found)
    \/ \E active \in BOOLEAN : ExecuteLink(active)
    \/ ExecuteRequestClosed
    \/ ExecuteRequestFailed
    \/ ExecuteRequestNoResponse
    \/ \E r \in ClientResponses : ExecuteResponse(r)
    \/ \E r \in ClientResponses : ExecuteResponseRaises(r)
    \/ InitiateWait
    \/ MainExcept
    \/ MainDies
    \/ MainExit

SpecClient == NotifyInit /\ [][NextClient]_vars

\* The registry by itself: put_for_tag and clear_tag are applied, in any order,
\* to a registry that is empty at first.
NextRegistry ==
    \/ \E tag \in RegistryTags, ps \in RegistrySessions : RegistryPut(tag, ps)
    \/ \E tag \in RegistryTags : RegistryClear(tag)

SpecRegistry == Init /\ [][NextRegistry]_vars

\* The Session of a link over the link's lifetime.  The environment of
\* SpecStdin, and the cull that is due 300 s after the child was reaped.
NextSession ==
    \/ NextStdin
    \/ \E l \in Links : CleanupCull(l)

SpecSession == StdoutInit /\ [][NextSession]_vars

\* The request handler.  The environment of SpecStdin, and a link may close
\* while a request of its initiator is on the way to the handler.
NextRequest ==
    \/ NextStdin
    \/ \E l \in Links, d \in AllRequests : ListenRequestNoLink(l, d)

SpecRequest == StdoutInit /\ [][NextRequest]_vars

\* The client's in-band Ctrl-C.  The environment: a session that goes on: the
\* destination is well-formed, the path is found, the link comes up and stays
\* up, and each request is answered, or not, without a return code and
\* without stdout; the user
\* types and sends SIGINT at any time.  The client's coroutine keeps being
\* scheduled and each wait ends.
Ongoing(r) == ExecuteResult(r) = NoneRc /\ r.rc = NoneRc /\ r.stdout = NoneSeq

NextSigint ==
    \/ \E n \in BOOLEAN, d \in Destinations :
          d.len = DestLen /\ d.hex /\ ClientMain(FALSE, n, d)
    \/ ExecuteDestination
    \/ ExecutePath(TRUE)
    \/ ExecuteLink(TRUE)
    \/ ExecuteRequestNoResponse
    \/ \E r \in ClientResponses : Ongoing(r) /\ ExecuteResponse(r)
    \/ InitiateWait
    \/ ClientSigint
    \/ InitiateStdin

ClientRuns ==
    \/ ExecuteDestination
    \/ ExecutePath(TRUE)
    \/ ExecuteLink(TRUE)
    \/ ExecuteRequestNoResponse
    \/ \E r \in ClientResponses : Ongoing(r) /\ ExecuteResponse(r)
    \/ InitiateWait

SpecSigint == NotifyInit /\ [][NextSigint]_vars /\ WF_vars(ClientRuns)

\* The listener's main loop.  The environment: a listener started with -n and
\* -b (no announce is ever due, so ServeAnnounce and ServeRaises do not occur)
\* that serves requests without stdin while SIGINT may be delivered; the main
\* coroutine keeps being scheduled.
NextServe ==
    \/ SigintHandler
    \/ ServeLoop
    \/ \E l \in Links : ListenLinkEstablished(l)
    \/ \E l \in Links : ListenLinkClosed(l)
    \/ \E l \in Links : SubprocTerminated(l, 0)
    \/ \E l \in Links, d \in NotifyRequests : ListenRequest(l, d)
    \/ \E l \in Links, d \in NotifyRequests : ListenStartProc(l, d)
    \/ ProcessStateRegister
    \/ ProcessRequestWinsize
    \/ ProcessRequestStdin
    \/ ProcessRequestRead
    \/ ProcessRequestReturn
    \/ SubprocTerminatedCleanup
    \/ LoopDataReady
    \/ LoopDataReadyBegin
    \/ InnerSend
    \/ InnerNotActive

ServeInit ==
    /\ ListenerInit
    /\ client = NoClient
    /\ allow_all
    /\ serve = Serving(TRUE)
    /\ link_mdu = [l \in Links |-> 2]

SpecServe ==
    /\ ServeInit
    /\ [][NextServe]_vars
    /\ WF_vars(ServeLoop)

\* Requests after the child's exit.  The environment: a listener started with
\* -n, a child that writes and may exit with return code 7, a pump that hands
\* over all the PTY holds, requests of either terminal state whose stdin field
\* is None or undecodable and, once the child has exited, of every kind, a link
\* that stays open.
ExitedRequests(l) ==
    {d \in AllRequests : d.raw = <<>> \/ child[l].state = "exited"}

NextExited ==
    \/ \E l \in Links : ListenLinkEstablished(l)
    \/ \E l \in Links : ChildWrite(l)
    \/ \E l \in Links : SubprocTerminated(l, 7)
    \/ \E l \in Links : StdoutData(l, Len(child[l].pty))
    \/ \E l \in Links : SubprocDataReady(l)
    \/ \E l \in Links : SubprocDataReadyBegin(l)
    \/ \E l \in Links : \E d \in ExitedRequests(l) : ListenRequest(l, d)
    \/ \E l \in Links : \E d \in ExitedRequests(l) : ListenStartProc(l, d)
    \/ ProcessStateRegister
    \/ ProcessRequestWinsize
    \/ ProcessRequestStdin
    \/ ProcessRequestRaises
    \/ ProcessRequestRead
    \/ ProcessRequestReturn
    \/ InnerSend
    \/ SubprocTerminatedCleanup
    \/ LoopDataReady
    \/ LoopDataReadyBegin

SpecExited == NotifyInit /\ [][NextExited]_vars

\* The client's polling of a listener whose child cannot be started.  The
\* environment: the destination is well-formed, the path is found, the link
\* comes up and stays ACTIVE, the user may type, the listener runs with -n, each
\* request finds no Session and a child that fails to start, and is answered
\* (all requests are answered alike, and handling one leaves the listener as it
\* was); the client's coroutine keeps being scheduled and each wait ends.
PollRuns ==
    \/ ExecuteDestination
    \/ ExecutePath(TRUE)
    \/ \E l \in Links : client.pc = "link" /\ ListenLinkEstablished(l)
    \/ \E l \in Links : link_status[l] = "ACTIVE" /\ ExecuteLink(TRUE)
    \/ \E l \in Links, d \in AllRequests :
          client.pc = "request" /\ ListenStartProcFails(l, d)
    \/ \E l \in Links : response[l].some /\ ExecuteAnswered(response[l])
    \/ InitiateWait

NextPoll ==
    \/ \E m \in BOOLEAN, n \in BOOLEAN, d \in Destinations :
          d.len = DestLen /\ d.hex /\ ClientMain(m, n, d)
    \/ ExecuteDestination
    \/ ExecutePath(TRUE)
    \/ \E l \in Links : client.pc = "link" /\ ListenLinkEstablished(l)
    \/ \E l \in Links : link_status[l] = "ACTIVE" /\ ExecuteLink(TRUE)
    \/ \E l \in Links, d \in AllRequests :
          client.pc = "request" /\ ListenStartProcFails(l, d)
    \/ \E l \in Links : response[l].some /\ ExecuteAnswered(response[l])
    \/ InitiateWait
    \/ InitiateStdin

SpecPoll == NotifyInit /\ [][NextPoll]_vars /\ WF_vars(PollRuns)

\* ------------------------------------------------------------------ the locks

\* The lock operations of the handlers, in the order in which the code performs
\* them; `with x:` acquires x, runs its body and releases x.  Each handler is
\* taken with every call it can make: on its other branches it leaves calls
\* out and makes no other.
Acquire(x) == [op |-> "acquire", lock |-> x]
Release(x) == [op |-> "release", lock |-> x]
With(x, body) == <<Acquire(x)>> \o body \o <<Release(x)>>

\* ProcessState.get_for_tag, clear_tag, put_for_tag (which calls clear_tag)
GetForTagOps == With("registry", <<>>)
ClearTagOps == With("registry", <<>>)
PutForTagOps == With("registry", ClearTagOps)

\* the retry timer's has_tag and complete
HasTagOps == With("retry", <<>>)
CompleteOps == With("retry", <<>>)

\* ProcessState.pending_receipt_take, pending_receipt_put, read
PendingReceiptTakeOps == With("session", <<>>)
PendingReceiptPutOps == With("session", <<>>)
ReadOps == With("session", <<>>)

\* _listen_link_closed, the Session is found
ListenLinkClosedOps == GetForTagOps \o CompleteOps \o ClearTagOps

\* inner of send, by its branches; link.teardown() runs _listen_link_closed
InnerNotActiveOps == CompleteOps \o PendingReceiptTakeOps
InnerDeliveredOps == PendingReceiptTakeOps \o CompleteOps
InnerSendOps == PendingReceiptTakeOps \o PendingReceiptPutOps
InnerTimeoutOps == PendingReceiptTakeOps \o CompleteOps \o ListenLinkClosedOps

\* send: inner is handed to the event loop with _loop.call_soon_threadsafe and
\* the link id is returned; no lock is taken
SendRunsInner == InnerSendOps
SendOps == <<>>

\* the retry timer's begin: the first try is made for the tag it returns, then
\* the chain is recorded
BeginOps == SendOps \o With("retry", <<>>)

\* the retry timer's thread: a pass over the chains, the callbacks of those
\* that are due are called
RetryThreadOps == With("retry", SendOps)

\* _subproc_data_ready, a chain is begun
SubprocDataReadyOps == GetForTagOps \o With("session", HasTagOps \o BeginOps)

\* ProcessState._stdout_data and the data-available callback it calls
StdoutDataOps == With("session", <<>>) \o SubprocDataReadyOps

\* ProcessState.process_request
ProcessRequestOps == With("session", ReadOps)

\* _listen_request, the Session is constructed (and registers itself)
ListenRequestOps ==
    CompleteOps \o GetForTagOps \o PutForTagOps \o ProcessRequestOps

\* _subproc_terminated, and inner of its cleanup
SubprocTerminatedOps == GetForTagOps
CleanupInnerOps == ListenLinkClosedOps \o ClearTagOps

\* what each thread runs
Programs(t) ==
    CASE t = "pump" -> {StdoutDataOps}
      [] t = "rq" -> {ListenRequestOps}
      [] t = "closed" -> {ListenLinkClosedOps}
      [] t = "loop" -> {InnerNotActiveOps, InnerDeliveredOps, InnerSendOps,
                        InnerTimeoutOps, CleanupInnerOps, SubprocTerminatedOps,
                        SubprocDataReadyOps}
      [] t = "retry" -> {RetryThreadOps}

\* the thread that holds lock x (of the Session of link l), or "free"
LockOwner(x, l) ==
    CASE x = "registry" -> registry_lock
      [] x = "retry" -> retry_lock
      [] x = "session" -> lock[l]

\* lock x (of the Session of link l) gets the owner o
SetLockOwner(x, l, o) ==
    /\ registry_lock' = IF x = "registry" THEN o ELSE registry_lock
    /\ retry_lock' = IF x = "retry" THEN o ELSE retry_lock
    /\ lock' = IF x = "session" THEN [lock EXCEPT ![l] = o] ELSE lock

\* a thread is called with a handler for link l
ThreadStarts(t, l, p) ==
    /\ threads[t].ops = <<>>
    /\ p \in Programs(t)
    /\ threads' = [threads EXCEPT ![t].ops = p, ![t].link = l]
    /\ UNCHANGED <<allow_all, allowed_identity_hashes, link_status,
                   remote_identity, link_mdu, processes, child, data_buffer, lock,
                   term_state, pending_receipt, rq, pump, loop_queue, loop_pc,
                   statuses, timers, response, written, delivered, sent_stdin,
                   chain_sent, client, serve, registry_op, not_active,
                   registry_lock, retry_lock>>

\* a thread acquires the lock it has come to: an RLock, granted when it is free
\* or held by the same thread
ThreadAcquires(t) ==
    LET th == threads[t]
        x == Head(th.ops).lock
    IN  /\ th.ops # <<>>
        /\ Head(th.ops).op = "acquire"
        /\ CanAcquire(LockOwner(x, th.link), t)
        /\ SetLockOwner(x, th.link, t)
        /\ threads' = [threads EXCEPT ![t].ops = Tail(@), ![t].held[x] = @ + 1]
        /\ UNCHANGED <<allow_all, allowed_identity_hashes, link_status,
                       remote_identity, link_mdu, processes, child, data_buffer,
                       term_state, pending_receipt, rq, pump, loop_queue, loop_pc,
                       statuses, timers, response, written, delivered,
                       sent_stdin, chain_sent, client, serve, registry_op,
                       not_active>>

\* a thread leaves a with-block: the lock is free again when the thread has
\* left all its with-blocks of that lock
ThreadReleases(t) ==
    LET th == threads[t]
        x == Head(th.ops).lock
    IN  /\ th.ops # <<>>
        /\ Head(th.ops).op = "release"
        /\ SetLockOwner(x, th.link, IF th.held[x] = 1 THEN "free" ELSE t)
        /\ threads' = [threads EXCEPT ![t].ops = Tail(@), ![t].held[x] = @ - 1]
        /\ UNCHANGED <<allow_all, allowed_identity_hashes, link_status,
                       remote_identity, link_mdu, processes, child, data_buffer,
                       term_state, pending_receipt, rq, pump, loop_queue, loop_pc,
                       statuses, timers, response, written, delivered,
                       sent_stdin, chain_sent, client, serve, registry_op,
                       not_active>>

\* The locks.  The environment: each thread is called with any of its handlers,
\* again and again, in any interleaving; a thread that can go on does, and a
\* lock that is free again and again is granted to a thread that waits for it.
NextLocks ==
    \/ \E t \in Threads, l \in Links : \E p \in Programs(t) : ThreadStarts(t, l, p)
    \/ \E t \in Threads : ThreadAcquires(t)
    \/ \E t \in Threads : ThreadReleases(t)

SpecLocks ==
    /\ NotifyInit
    /\ [][NextLocks]_vars
    /\ \A t \in Threads : SF_vars(ThreadAcquires(t) \/ ThreadReleases(t))

\* ------------------------------------------------------------------- claims

\* the stdout the handler has taken from the buffer of l for a response it has
\* not returned yet
InFlight(l) == IF rq.pc = "rdy" /\ rq.link = l THEN rq.take ELSE <<>>

\* C1: for any interleaving of the pump's appends and the requests of a link,
\* the stdout chunks of the responses so far, decoded and concatenated, are a
\* prefix of what the child has written, and what follows that prefix is,
\* in order, the chunk being returned, the buffer and what the PTY still
\* holds: no byte is lost, duplicated or reordered.
C1_StdoutInOrder ==
    \A l \in Links :
        /\ IsPrefix(delivered[l], written[l])
        /\ delivered[l] \o InFlight(l) \o data_buffer[l] \o child[l].pty = written[l]

\* C1 witness: with a read size of one byte, two responses have each carried
\* one byte while the pump has appended a third behind them
C1_Witness ==
    \E l \in Links :
        /\ link_mdu[l] = 1
        /\ Len(delivered[l]) = 2
        /\ response[l].stdout # NoneSeq
        /\ Len(data_buffer[l]) = 1

\* C2: the stdout chunk of a response built by process_request is the first
\* min(MDU * 3 // 2, len(buffer)) bytes the buffer held at the instant of the
\* read, ready_bytes is the number of bytes the buffer held beyond them at that
\* instant, and between the read and the sampling of ready_bytes the buffer is
\* exactly the rest.
C2_ReadAtomic ==
    /\ \A l \in Links :
          response[l].by = "process_request" =>
              LET n == Min((link_mdu[l] * 3) \div 2, Len(response[l].before))
              IN  /\ StdoutOfResponse(response[l].stdout)
                        = SubSeq(response[l].before, 1, n)
                  /\ response[l].rdy = Len(response[l].before) - n
    /\ rq.pc = "rdy" => rq.take \o data_buffer[rq.link] = rq.before

\* C2 witness: the handler holds the lock between its read and its sampling,
\* having taken a part of the buffer, while the pump has bytes to append
C2_Witness ==
    /\ rq.pc = "rdy"
    /\ Len(rq.take) >= 1
    /\ Len(data_buffer[rq.link]) >= 1
    /\ pump[rq.link] = "idle"
    /\ Len(child[rq.link].pty) >= 1

\* C4: once a response of a link has reported running=false and ready_bytes=0,
\* every later response of that link, while the link is up, reports
\* running=false, the same non-null return code, ready_bytes=0 and no stdout.
C4_FinalResponseStable ==
    [][\A l \in Links :
          (/\ response[l].some
           /\ ~response[l].running
           /\ response[l].rdy = 0
           /\ response'[l] # response[l])
          => /\ ~response'[l].running
             /\ response'[l].rc # NoneRc
             /\ response[l].rc # NoneRc => response'[l].rc = response[l].rc
             /\ response'[l].rdy = 0
             /\ response'[l].stdout = NoneSeq]_vars

\* C3: the bytes written to the child's stdin are the concatenation, in request
\* order, of the stdin segments of the requests handled while the child was
\* running; a request whose stdin field is absent or empty adds nothing.
C3_StdinInOrder == \A l \in Links : child[l].stdin = sent_stdin[l]

\* C3 witness: a request carrying the second stdin byte has been written after
\* an earlier request carried the first
C3_Witness ==
    \E l \in Links :
        /\ rq.pc = "read"
        /\ rq.link = l
        /\ Len(rq.raw) = 1
        /\ Len(child[l].stdin) = 2
        /\ child[l].stdin = <<InByte(1), InByte(2)>>

\* the chains the retry timer holds for link l
ChainsOf(l) == {i \in DOMAIN statuses : statuses[i].tag = l}

\* the event loop runs the callback at the head of its queue, one of kind
\* `kind` for link l (the loop alone shortens the queue)
LoopRuns(kind, l) ==
    /\ LoopHead(kind)
    /\ Head(loop_queue).l = l
    /\ Len(loop_queue') < Len(loop_queue)

\* the event loop runs an attempt of link l that sends a `data available`
\* packet
PacketSent(l) == LoopRuns("inner", l) /\ pending_receipt'[l] = "SENT"

\* C5: at every moment the retry timer holds at most one chain per link, and a
\* call of _subproc_data_ready for a link that has a chain, by the pump or by
\* the event loop, starts no chain, hands no attempt to the loop and sends no
\* packet.
C5_OneChainPerLink ==
    /\ [](\A l \in Links : Cardinality(ChainsOf(l)) <= 1)
    /\ [][\A l \in Links :
            ChainsOf(l) # {} =>
              /\ (pump[l] = "notify" /\ pump'[l] # "notify")
                    => UNCHANGED <<statuses, loop_queue, pending_receipt, chain_sent>>
              /\ LoopRuns("data_ready", l)
                    => /\ UNCHANGED <<statuses, pending_receipt, chain_sent, loop_pc>>
                       /\ loop_queue' = Tail(loop_queue)]_vars

\* C5 witness: the event loop is about to call _subproc_data_ready for a link
\* whose chain, begun by the pump, has sent a packet already, while the pump
\* is in its own call
C5_Witness ==
    \E l \in Links :
        /\ LoopHead("data_ready")
        /\ Head(loop_queue).l = l
        /\ ChainsOf(l) # {}
        /\ chain_sent[l] >= 1
        /\ pump[l] = "notify"

\* C6: the attempts of one chain send at most 15 packets, no chain makes more
\* than 15 tries, and when the event loop runs the timeout of a chain on an
\* ACTIVE link whose last receipt is not DELIVERED, the link is CLOSED and no
\* chain is left for it.
C6_ChainBounded ==
    /\ [](\A l \in Links : chain_sent[l] <= 15)
    /\ [](\A i \in DOMAIN statuses : statuses[i].tries <= 15)
    /\ [][\A l \in Links :
            (/\ LoopRuns("inner", l)
             /\ Head(loop_queue).timeout
             /\ link_status[l] = "ACTIVE"
             /\ pending_receipt[l] # "DELIVERED")
            => /\ link_status'[l] = "CLOSED"
               /\ \A i \in DOMAIN statuses' : statuses'[i].tag # l]_vars

\* C6 witness: a chain has sent its 15 packets, none was proved delivered, and
\* its timeout waits on the event loop of an ACTIVE link
C6_Witness ==
    \E l \in Links :
        /\ chain_sent[l] = 15
        /\ LoopHead("inner")
        /\ Head(loop_queue).l = l
        /\ Head(loop_queue).timeout
        /\ ~Head(loop_queue).old
        /\ link_status[l] = "ACTIVE"
        /\ pending_receipt[l] = "SENT"

\* C7: an attempt whose chain has been cancelled sends no `data available`
\* packet while the link has no chain.
C7_NoPacketAfterCancel ==
    [][\A l \in Links :
          (PacketSent(l) /\ Head(loop_queue).stale) => ChainsOf(l) # {}]_vars

\* C10: behind an allow-list, a link whose initiator has identified with an
\* identity that is not in the list is CLOSED, and no request of it has been
\* served: it has no child, no ProcessState and no response.
C10_RefusedIdentity ==
    \A l \in Links :
        (~allow_all /\ remote_identity[l] # NoIdentity
            /\ remote_identity[l] \notin allowed_identity_hashes)
        => /\ link_status[l] = "CLOSED"
           /\ child[l].state = "none"
           /\ GetForTag(processes, l) = NoPs
           /\ ~response[l].some
           /\ ~(rq.pc # "idle" /\ rq.link = l)

\* C10 witness: the initiator of a link has identified as H2 to a listener
\* whose list holds H1 alone
C10_Witness ==
    \E l \in Links :
        /\ ~allow_all
        /\ allowed_identity_hashes = {"H1"}
        /\ remote_identity[l] = "H2"
        /\ link_status[l] = "CLOSED"

\* C8: when the client has exited after a response that reported the child's
\* return code with nothing left to read, its exit code is that return code
\* with -m, 0 included, and 0 without -m.
C8_MirroredExitCode ==
    (client.pc = "done" /\ ~client.error)
    => client.exit = IF client.mirror THEN client.last.rc ELSE 0

\* C9: when the client has exited after a remote-execution error (no path, no
\* ACTIVE link, the link closed during a request, a request FAILED), its exit
\* code is 255, with -m or without.
C9_ErrorExit255 == (client.pc = "done" /\ client.error) => client.exit = 255

\* the listener has left its serving loop, no child is running and every link
\* is CLOSED
ShutDown ==
    /\ serve.pc = "done"
    /\ \A l \in Links : ~Running(child[l]) /\ link_status[l] = "CLOSED"

\* C11: after SIGINT has been delivered to the serving listener, the listener
\* eventually has left its loop with every child terminated and every link
\* CLOSED.
C11_SigintShutsDown == serve.finished ~> ShutDown

\* the link-closed callback of link l has run in this step
LinkClosedRuns(l) == link_status[l] # "CLOSED" /\ link_status'[l] = "CLOSED"

\* C12: when a link closes, after the link-closed callback the child of the
\* link's Session is not running, the link has no retry chain, and
\* get_for_tag(link-id) yields none.
C12_LinkClosedRemovesSession ==
    [][\A l \in Links :
         LinkClosedRuns(l) =>
             LET proc == GetForTag(processes, l) IN
             /\ proc # NoPs => child'[proc].state # "running"
             /\ ~HasTag(statuses', l)
             /\ GetForTag(processes', l) = NoPs]_vars

\* the client process has ended
ClientEnded == client.pc \in {"done", "died"}

\* C13: when the client has ended, by a return of main or by an exception, the
\* terminal has its original attributes and the restore has been performed
\* exactly once.
C13_RestoredOnce ==
    ClientEnded => client.tty = "original" /\ client.restores = 1

\* _listen_request for link l ends in this step other than by returning what
\* process_request built
HandlerRaises(l) ==
    /\ response'[l].by # "process_request"
    /\ \/ response'[l] # response[l]
       \/ rq.link = l /\ rq.pc # "idle" /\ rq'.pc = "idle"

\* C14: when an exception is raised while a data request is handled, the
\* handler returns the default response to the transport (no exception leaves
\* it), and the child of the Session it holds is not left running.
C14_ExceptionYieldsDefault ==
    [][\A l \in Links :
         HandlerRaises(l) =>
             /\ response'[l] = DefaultResponse
             /\ rq.pc # "idle" => child'[l].state # "running"]_vars

\* C15: once _execute has looked at a destination whose length is not the
\* required number of hexadecimal characters, _initiate has printed a message
\* that contains "hexadecimal characters" and returned 255, no path has been
\* looked up or requested and no link has been made.
C15_WrongLengthDestination ==
    (client.pc \notin {"off", "execute"} /\ client.destination.len # DestLen)
    => /\ Contains(client.printed, <<"hexadecimal", "characters">>)
       /\ client.return_code = 255
       /\ ~client.path
       /\ client.link = "none"

\* the client has ended after it was given a destination of the wrong length
C15_Witness == client.pc = "done" /\ client.destination.len # DestLen

\* the number of bytes b in s
RECURSIVE Count(_, _)
Count(s, b) ==
    IF Len(s) = 0 THEN 0
    ELSE (IF s[1] = b THEN 1 ELSE 0) + Count(SubSeq(s, 2, Len(s)), b)

EntriesOf(reg, tag) == {i \in 1..Len(reg) : reg[i][1] = tag}

\* C17: the registry never holds more than one Session for a link-id, no more
\* than one child is ever spawned for a link, and a child is spawned (a Session
\* created) only by a request that finds no Session registered for its link.
C17_OneSessionPerLink ==
    /\ [](\A l \in Links :
            /\ Cardinality(EntriesOf(processes, l)) <= 1
            /\ child[l].spawned <= 1)
    /\ [][\A l \in Links :
            child'[l].spawned # child[l].spawned
                => GetForTag(processes, l) = NoPs]_vars

\* a request of a link has found the Session that an earlier request of the
\* link registered, after a response was returned for the link
C17_Witness ==
    \E l \in Links :
        /\ Cardinality(EntriesOf(processes, l)) = 1
        /\ child[l].spawned = 1
        /\ response[l].by = "process_request"
        /\ rq.pc = "process" /\ rq.link = l

\* the entries of reg whose tag is not `tag`, in order
OtherEntries(reg, tag) == SelectSeq(reg, LAMBDA e : e[1] # tag)

\* C18: after put_for_tag(tag, s) get_for_tag(tag) returns s and tag has one
\* entry only; after clear_tag(tag) get_for_tag(tag) returns nothing;
\* clear_tag of a tag that has no entry leaves the registry as it was, and a
\* second clear_tag changes nothing; the entries of other tags stay as they
\* were.
C18_RegistryOps ==
    LET o == registry_op IN
    /\ o.op = "put" =>
          /\ GetForTag(processes, o.tag) = o.ps
          /\ Cardinality(EntriesOf(processes, o.tag)) = 1
    /\ o.op = "clear" =>
          /\ GetForTag(processes, o.tag) = NoPs
          /\ EntriesOf(o.before, o.tag) = {} => processes = o.before
          /\ ClearTag(processes, o.tag) = processes
    /\ o.op # "none" =>
          OtherEntries(processes, o.tag) = OtherEntries(o.before, o.tag)

\* the window size of a term_state: rows, cols, hpix, vpix
Winsize(ts) == SubSeq(ts, 2, 5)

\* C19: when process_request has compared a request's terminal state with the
\* cached one, set_winsize has been issued with the request's window size
\* exactly if the child ran and the two differed, the cache then holds the
\* request's terminal state, and otherwise neither the window size nor the
\* cache has changed; this step comes before the request's stdin is written
\* and its stdout is read.
C19_WinsizeOnChange ==
    [][(rq.pc = "process" /\ rq'.pc # "process") =>
         LET l == rq.link
             differs == Running(child[l]) /\ rq.ts # term_state[l]
         IN  /\ rq'.pc = "stdin"
             /\ rq'.set_winsize <=> differs
             /\ differs => /\ term_state'[l] = rq.ts
                           /\ child'[l].winsz = Winsize(rq.ts)
             /\ ~differs => /\ term_state'[l] = term_state[l]
                            /\ child'[l].winsz = child[l].winsz]_vars

\* C20: a `data available` packet is sent only on a link that is ACTIVE; an
\* attempt that the event loop runs for a link that is not ACTIVE sends no
\* packet, and after it the link has no chain and the Session no pending
\* receipt.
C20_NoPacketUnlessActive ==
    [][\A l \in Links :
         /\ PacketSent(l) => link_status[l] = "ACTIVE"
         /\ (LoopRuns("inner", l) /\ link_status[l] # "ACTIVE") =>
               /\ chain_sent' = chain_sent
               /\ ~HasTag(statuses', l)
               /\ pending_receipt'[l] = "None"]_vars

\* an attempt has found its link closed after a packet of the link's chain was
\* sent: the receipt of that packet is gone
C20_Witness ==
    \E l \in not_active :
        /\ link_status[l] = "CLOSED"
        /\ chain_sent[l] >= 1
        /\ pending_receipt[l] = "None"

PumpHandsOver(l) ==
    /\ pump[l] = "begin"
    /\ pump'[l] = "idle"
    /\ Len(loop_queue') > Len(loop_queue)

\* the event loop, in _subproc_data_ready, hands the first attempt of a new
\* chain of link l to itself
LoopHandsOver(l) ==
    /\ loop_pc = [pc |-> "begin", l |-> l]
    /\ loop_pc'.pc = "idle"
    /\ Len(loop_queue') > Len(loop_queue)

\* C22: a thread that hands a callback to the event loop, or sends a packet,
\* does not hold the Session lock of the link at that moment: not the stdout
\* pump and not the event loop when they schedule the first attempt of a chain,
\* and not the event loop when an attempt sends the packet.
C22_NoLockAcrossHandOver ==
    [][\A l \in Links :
         /\ PumpHandsOver(l) => lock[l] # "pump"
         /\ LoopHandsOver(l) => lock[l] # "loop"
         /\ PacketSent(l) => lock[l] # "loop"]_vars

\* the request handler takes a step of the request of link l
HandlerSteps(l) == rq.pc # "idle" /\ rq.link = l /\ rq' # rq

\* C23: a request handled after the child has exited leaves the child and the
\* cached terminal state as they are, whatever its stdin field and terminal
\* state (no write, no set_winsize, no exception), and still takes the first
\* read_size bytes of the buffer, leaves the rest and returns what it took.
C23_RequestAfterExit ==
    [][\A l \in Links :
         LET buf == data_buffer[l]
             n == Min(ReadSize(link_mdu[l]), Len(buf))
         IN  /\ (HandlerSteps(l) /\ rq.pc = "process" /\ child[l].state = "exited")
                    => /\ ~rq'.running /\ ~rq'.set_winsize /\ rq'.pc = "stdin"
                       /\ child' = child /\ term_state' = term_state
             /\ (HandlerSteps(l) /\ rq.pc = "stdin" /\ ~rq.running)
                    => /\ rq'.pc = "read"
                       /\ child' = child /\ term_state' = term_state
             /\ (HandlerSteps(l) /\ rq.pc = "read" /\ ~rq.running)
                    => /\ rq'.take = SubSeq(buf, 1, n)
                       /\ data_buffer'[l] = SubSeq(buf, n + 1, Len(buf))
                       /\ child' = child /\ term_state' = term_state
             /\ (HandlerSteps(l) /\ rq.pc = "rdy" /\ ~rq.running)
                    => /\ response'[l].by = "process_request"
                       /\ StdoutOfResponse(response'[l].stdout) = rq.take
                       /\ response'[l].rdy = Len(buf)
                       /\ delivered'[l] = delivered[l] \o rq.take
                       /\ child' = child /\ term_state' = term_state]_vars

\* a request that carries stdin and another terminal state than the cached one
\* is handled after the child has exited, and it has read buffered stdout
C23_Witness ==
    \E l \in Links :
        /\ rq.pc = "rdy" /\ rq.link = l
        /\ child[l].state = "exited"
        /\ ~rq.running
        /\ rq.field # NoneSeq /\ Len(rq.field) > 0
        /\ rq.ts # term_state[l]
        /\ Len(rq.take) > 0

\* the child of link l is reaped
ChildExits(l) == child[l].state # "exited" /\ child'[l].state = "exited"

\* the timer that cleanup set for link l fires on the event loop
GraceElapses(l) == l \in timers /\ l \notin timers'

\* C24: the step in which a child exits changes neither the status of a link
\* nor the registry; when the timer set at the exit fires, the link is CLOSED
\* afterwards and the registry holds no Session for the link, whether or not
\* the link was CLOSED before.
C24_CullAfterGrace ==
    [][\A l \in Links :
         /\ ChildExits(l) => link_status' = link_status /\ processes' = processes
         /\ GraceElapses(l) =>
                /\ link_status[l] # "CLOSED" => link_status'[l] = "CLOSED"
                /\ GetForTag(processes', l) = NoPs]_vars

\* the event loop runs a try of the chain that link l has now (neither an
\* attempt of an earlier chain nor one whose chain has been cancelled) and the
\* link has no chain afterwards
TryEndsChain(l) ==
    /\ LoopRuns("inner", l)
    /\ ~Head(loop_queue).timeout
    /\ ~Head(loop_queue).old
    /\ ~Head(loop_queue).stale
    /\ ChainsOf(l) # {}
    /\ ~HasTag(statuses', l)

ClientReturnsOn(l) == response[l].some /\ ExecuteResult(response[l]) # NoneRc

\* C26: when the response of a link makes the client loop return a return
\* code, the stdout of the responses so far, which the client has written to
\* its local stdout, is all the child has written to its PTY.
C26_ReturnsAfterAllOutput ==
    \A l \in Links : ClientReturnsOn(l) => delivered[l] = written[l]

\* C27: on a link that stays ACTIVE and whose requests are all answered, once
\* a request has found that the child fails to start, the client loop returns
\* a return code.
C27_ClientReturns ==
    \A l \in Links :
        (link_status[l] = "ACTIVE" /\ response[l] = DefaultResponse)
            ~> (client.return_code # NoneRc)

\* thread t has come to acquire lock x
Wants(t, x) ==
    /\ threads[t].ops # <<>>
    /\ Head(threads[t].ops) = Acquire(x)

\* thread t waits for a lock that another thread holds
Blocked(t) ==
    \E x \in LockNames :
        Wants(t, x) /\ ~CanAcquire(LockOwner(x, threads[t].link), t)

\* the thread that holds the lock t waits for
Blocker(t) ==
    LockOwner(Head(threads[t].ops).lock, threads[t].link)

\* the thread at the end of k waits that begin with t, if there are k
RECURSIVE WaitsFor(_, _)
WaitsFor(t, k) ==
    IF k = 0 THEN t
    ELSE LET u == WaitsFor(t, k - 1)
         IN  IF u \in Threads /\ Blocked(u) THEN Blocker(u) ELSE "none"

\* t is one of a ring of threads each of which waits for the next
Deadlocked(t) == \E k \in 1..Cardinality(Threads) : WaitsFor(t, k) = t

\* the only lock a thread acquires while it holds another is the retry
\* timer's, acquired under a Session lock
LockOrderKept(t) ==
    \A x, y \in LockNames :
        (Wants(t, x) /\ threads[t].held[y] > 0)
            => (y = x \/ (y = "session" /\ x = "retry"))

\* thread t has come to acquire a lock that it does not hold yet
Awaits(t) == \E x \in LockNames : Wants(t, x) /\ threads[t].held[x] = 0

\* C28: in no interleaving of the handlers is there a ring of threads waiting
\* for each other's locks, no thread acquires locks in two orders, and no
\* thread that has come to acquire the registry lock, a Session lock or the
\* retry timer's lock stays without it for ever.
C28_NoDeadlock ==
    /\ [](\A t \in Threads : ~Deadlocked(t) /\ LockOrderKept(t))
    /\ \A t \in Threads : []<>~Awaits(t)

\* the stdout pump holds the Session lock and waits for the retry timer's lock,
\* which the timer's thread holds, while the request handler waits for the
\* Session lock and the link-closed callback for the retry timer's lock
C28_Witness ==
    /\ threads["pump"].held["session"] > 0
    /\ Wants("pump", "retry")
    /\ retry_lock = "retry"
    /\ Wants("rq", "session")
    /\ Wants("closed", "retry")

====
